---- MODULE Spec2Model ----
(***************************************************************************)
(* A model of the Future<L,R> class of src/Future.ts (lines 1-295).        *)
(*                                                                         *)
(* A Future is a term: its kind and the values its closure captured.       *)
(* Callbacks (the closures the combinators hand to one another) are        *)
(* records too, and Call runs one.  engage/engageAndCatch run a Future     *)
(* synchronously on an execution record                                    *)
(*   log   : the sequence of observable events                             *)
(*   cells : the per-engagement locals of gather2/allArray                 *)
(*   tasks : the host's pending timers and promise reactions               *)
(*   exc   : the exception in flight, if any                               *)
(*   promise : the promise toPromise made, if any                          *)
(* A JavaScript throw is exc.thrown = TRUE; every statement after a call   *)
(* is skipped while an exception is in flight, until a try/catch of the    *)
(* source clears it.                                                       *)
(* A call event names its site: the Future whose function was called.      *)
(***************************************************************************)
EXTENDS Integers, Sequences, FiniteSets, TLC

\* Largest number of Futures handed to gather2/gather3/gather4/all.
MaxInputs == 4
\* Largest number of combinators chained on one Future.
MaxChain == 2
\* Largest number of Futures composed in a Future that is started by
\* toPromise, then or await.
MaxPromised == 2

VARIABLES pool, st, pc, caller

vars == <<pool, st, pc, caller>>

----------------------------------------------------------------------------
\* The execution record and its exception flag.

NoExc == [thrown |-> FALSE, err |-> 0]

Throw(e, s) == [s EXCEPT !.exc = [thrown |-> TRUE, err |-> e]]

Caught(s) == [s EXCEPT !.exc = NoExc]

Emit(ev, s) == [s EXCEPT !.log = Append(@, ev)]

\* No promise has been made; and the promise new Promise(...) starts as.
NoPromise == [state |-> "none", v |-> 0, reactions |-> <<>>]

PendingPromise == [state |-> "pending", v |-> 0, reactions |-> <<>>]

EmptyExec == [log |-> <<>>, cells |-> <<>>, tasks |-> <<>>, exc |-> NoExc,
              promise |-> NoPromise]

\* setTimeout(() => cb(v)): a timer of the host, run on a later turn.
SetTimeout(cb, v, s) ==
    [s EXCEPT !.tasks = Append(@, [src |-> "timer", cb |-> cb, alt |-> cb,
                                   v |-> v, fired |-> FALSE])]

----------------------------------------------------------------------------
\* User-supplied and library functions of one argument.  The result is
\* [thrown, val]: val is the returned value, or the thrown one.

Returned(v) == [thrown |-> FALSE, val |-> v]

Thrown(e) == [thrown |-> TRUE, val |-> e]

Range(seq) == {seq[i] : i \in 1..Len(seq)}

IndexOf(seq, x) == CHOOSE i \in 1..Len(seq) : seq[i] = x

\* The first two results exchanged: ([[f1, f2], f3]) => [f2, f1, f3]
Flatten3Swapped(r) == (0 :> r[0][1]) @@ (1 :> r[0][0]) @@ (2 :> r[1])

\* gather3's flattening mapper ([[f1, f2], f3]) => [f1, f2, f3]
Flatten3(r) == (0 :> r[0][0]) @@ (1 :> r[0][1]) @@ (2 :> r[1])

\* gather4's flattening mapper ([[f1, f2], [f3, f4]]) => [f1, f2, f3, f4]
Flatten4(r) == (0 :> r[0][0]) @@ (1 :> r[0][1]) @@ (2 :> r[1][0]) @@ (3 :> r[1][1])

\* Every key given the first result: futureMap[futureKey] = futureResults[0]
RekeyFirst(futureKeys, futureResults) ==
    [futureKey \in Range(futureKeys) |-> futureResults[0]]

\* allObject's mapper: futureKeys.reduce(... futureMap[futureKey] = futureResults[index] ...)
Rekey(futureKeys, futureResults) ==
    [futureKey \in Range(futureKeys) |-> futureResults[IndexOf(futureKeys, futureKey) - 1]]

Apply(fn, x) ==
    CASE fn.n = "inc"      -> Returned(x + 1)
      [] fn.n = "plus10"   -> Returned(x + 10)
      [] fn.n = "tag"      -> Returned(x + 1000)
      [] fn.n = "boom"     -> Thrown(500 + x)
      [] fn.n = "flatten3" -> Returned(Flatten3(x))
      [] fn.n = "flatten4" -> Returned(Flatten4(x))
      [] fn.n = "rekey"    -> Returned(Rekey(fn.keys, x))

Fn(name) == [n |-> name]

----------------------------------------------------------------------------
\* Future terms.

\* new Future(action) with a user-written action
Future(action) == [k |-> "new", action |-> action]

of(result) == [k |-> "of", result |-> result]

reject(error) == [k |-> "reject", error |-> error]

tryF(fn) == [k |-> "tryF", fn |-> fn]

tryP(fn) == [k |-> "tryP", fn |-> fn]

encase(fn, a) == [k |-> "encase", fn |-> fn, a |-> a]

flatMap(this, next) == [k |-> "flatMap", this |-> this, next |-> next]

\* map(mapper) is flatMap((x) => Future.of(mapper(x)))
map(this, mapper) == flatMap(this, [n |-> "mapOf", mapper |-> mapper])

handleWith(this, errHandler) == [k |-> "handleWith", this |-> this, errHandler |-> errHandler]

errorMap(this, mapper) == [k |-> "errorMap", this |-> this, mapper |-> mapper]

gather2(future1, future2) == [k |-> "gather2", future1 |-> future1, future2 |-> future2]

gather3(future1, future2, future3) ==
    map(gather2(gather2(future1, future2), future3), Fn("flatten3"))

gather4(future1, future2, future3, future4) ==
    map(gather2(gather2(future1, future2), gather2(future3, future4)), Fn("flatten4"))

allArray(futures) == [k |-> "allArray", futures |-> futures]

\* futures is the object as the sequence of its [key, future] entries, in
\* the order Object.keys returns them.
allObject(futures) ==
    LET futureKeys == [i \in 1..Len(futures) |-> futures[i].key]
        futuresArray == [i \in 1..Len(futures) |-> futures[i].future]
    IN  map(allArray(futuresArray), [n |-> "rekey", keys |-> futureKeys])

----------------------------------------------------------------------------
\* The functions a user passes to flatMap and handleWith: value -> Future.
\* The result is [thrown, val]: the Future returned, or the value thrown.

InvokeNext(next, data) ==
    CASE next.n = "mapOf" ->
            LET r == Apply(next.mapper, data)
            IN  IF r.thrown THEN r ELSE Returned(of(r.val))
      [] next.n = "nextOf"     -> Returned(of(data * 2))
      [] next.n = "nextReject" -> Returned(reject(data + 200))
      [] next.n = "nextLater"  -> Returned(Future([b |-> "laterResolve", v |-> data * 2]))
      [] next.n = "nextThrow"  -> Thrown(600 + data)

InvokeErrHandler(h, error) ==
    CASE h.n = "hOf"     -> Returned(of(error + 2000))
      [] h.n = "hReject" -> Returned(reject(error + 300))
      [] h.n = "hLater"  -> Returned(Future([b |-> "laterReject", e |-> error + 300]))
      [] h.n = "hThrow"  -> Thrown(700 + error)

\* The functions of no argument handed to tryF and tryP.  A thunk is
\* () => g(a); the others return a promise already settled one way or the
\* other (its reactions still run on a later turn), or throw.
InvokeFn(fn) ==
    CASE fn.n = "thunk"    -> Apply(fn.g, fn.a)
      [] fn.n = "pResolve" -> Returned([settled |-> "fulfilled", v |-> fn.v])
      [] fn.n = "pReject"  -> Returned([settled |-> "rejected", v |-> fn.v])
      [] fn.n = "pThrow"   -> Thrown(fn.v)

\* (promiseResult).then(resolve).catch(reject): a fulfilled promise runs
\* resolve on a later turn, and reject sees what resolve throws (RunTask
\* queues that reaction as "thenThrew"); a rejected one passes through
\* then() to the catch reaction.
ThenCatch(promiseResult, res, rej, s) ==
    [s EXCEPT !.tasks = Append(@,
        IF promiseResult.settled = "fulfilled"
        THEN [src |-> "fulfilled", cb |-> res, alt |-> rej,
              v |-> promiseResult.v, fired |-> FALSE]
        ELSE [src |-> "rejected", cb |-> rej, alt |-> rej,
              v |-> promiseResult.v, fired |-> FALSE])]

----------------------------------------------------------------------------
\* The callbacks.  The caller's two callbacks log their call and may throw;
\* the others are the closures of the combinators.

CallerFail(throws) == [t |-> "callerFail", throws |-> throws]

CallerSucceed(throws) == [t |-> "callerSucceed", throws |-> throws]

\* The callbacks the caller hands to its k-th engage call on one Future.
EngagementFail(k, throws) == [t |-> "engagementFail", by |-> k, throws |-> throws]

EngagementSucceed(k, throws) == [t |-> "engagementSucceed", by |-> k, throws |-> throws]

NewCell == [results |-> <<>>, count |-> 0, done |-> FALSE]

\* results[index] = result on a JavaScript array
SetIndex(results, index, result) ==
    [i \in (DOMAIN results) \cup {index} |-> IF i = index THEN result ELSE results[i]]

RECURSIVE engage(_, _, _, _)
RECURSIVE engageAndCatch(_, _, _, _, _)
RECURSIVE Call(_, _, _)
RECURSIVE forEach(_, _, _, _, _, _)

\* flatMap: (data) => next(data).engageAndCatch(reject, resolve)
FlatMapResolve(cb, data, s) ==
    LET r == InvokeNext(cb.next, data)
        s1 == Emit([ev |-> "call", role |-> "next", fn |-> cb.next, arg |-> data,
                    site |-> cb.site], s)
    IN  IF r.thrown THEN Throw(r.val, s1)
        ELSE engageAndCatch(r.val, cb.reject, cb.resolve, TRUE, s1)

\* handleWith: (error) => errHandler(error).engageAndCatch(reject, resolve, false)
HandleWithReject(cb, error, s) ==
    LET r == InvokeErrHandler(cb.errHandler, error)
        s1 == Emit([ev |-> "call", role |-> "errHandler", fn |-> cb.errHandler, arg |-> error,
                    site |-> cb.site], s)
    IN  IF r.thrown THEN Throw(r.val, s1)
        ELSE engageAndCatch(r.val, cb.reject, cb.resolve, FALSE, s1)

\* errorMap: (error) => reject(mapper(error))
ErrorMapReject(cb, error, s) ==
    LET r == Apply(cb.mapper, error)
        s1 == Emit([ev |-> "call", role |-> "errorMapper", fn |-> cb.mapper, arg |-> error,
                    site |-> cb.site], s)
    IN  IF r.thrown THEN Throw(r.val, s1)
        ELSE Call(cb.reject, r.val, s1)

\* The reject closure that drops the first failure and hands on the second.
Gather2RejectSecond(cb, error, s) ==
    IF ~s.cells[cb.cell].done
    THEN [s EXCEPT !.cells[cb.cell].done = TRUE]
    ELSE Call(cb.reject, error, s)

\* The reject closure without the first-failure guard.
Gather2RejectUnguarded(cb, error, s) == Call(cb.reject, error, s)

\* gather2: (error) => { if (!done) { done = true; reject(error); } }
Gather2Reject(cb, error, s) ==
    IF ~s.cells[cb.cell].done
    THEN Call(cb.reject, error, [s EXCEPT !.cells[cb.cell].done = TRUE])
    ELSE s

\* The counter compared with 3: a pair never completes.
Gather2ResolveThree(cb, result, s) ==
    LET s1 == [s EXCEPT !.cells[cb.cell].results = SetIndex(@, cb.index, result),
                        !.cells[cb.cell].count = @ + 1]
    IN  IF s1.cells[cb.cell].count = 3
        THEN Call(cb.resolve, s1.cells[cb.cell].results, s1)
        ELSE s1

\* gather2: (result) => { results[i] = result; if (++count === 2) { resolve(results); } }
Gather2Resolve(cb, result, s) ==
    LET s1 == [s EXCEPT !.cells[cb.cell].results = SetIndex(@, cb.index, result),
                        !.cells[cb.cell].count = @ + 1]
    IN  IF s1.cells[cb.cell].count = 2
        THEN Call(cb.resolve, s1.cells[cb.cell].results, s1)
        ELSE s1

\* The failure handed on from a timer, after the forEach loop has finished.
AllArrayRejectLater(cb, error, s) == SetTimeout(cb.reject, error, s)

\* allArray: (error) => { reject(error); }
AllArrayReject(cb, error, s) == Call(cb.reject, error, s)

\* results.push(result) written for results[index] = result.
AllArrayResolvePush(cb, result, s) ==
    LET s1 == [s EXCEPT !.cells[cb.cell].results = SetIndex(@, s.cells[cb.cell].count, result),
                        !.cells[cb.cell].count = @ + 1]
    IN  IF s1.cells[cb.cell].count = cb.length
        THEN Call(cb.resolve, s1.cells[cb.cell].results, s1)
        ELSE s1

\* allArray: (result) => { results[index] = result; count += 1;
\*                         if (count === futures.length) { resolve(results); } }
AllArrayResolve(cb, result, s) ==
    LET s1 == [s EXCEPT !.cells[cb.cell].results = SetIndex(@, cb.index, result),
                        !.cells[cb.cell].count = @ + 1]
    IN  IF s1.cells[cb.cell].count = cb.length
        THEN Call(cb.resolve, s1.cells[cb.cell].results, s1)
        ELSE s1

\* The resolve and reject functions of the promise made by toPromise: the
\* first call settles the promise and queues the reactions registered by
\* then(); later calls do nothing.  They never throw.
PromiseSettle(how, v, s) ==
    LET s1 == Emit([ev |-> (IF how = "fulfilled" THEN "resolve" ELSE "reject"), arg |-> v], s)
        reactions == [i \in 1..Len(s1.promise.reactions) |->
                        LET handler == IF how = "fulfilled"
                                       THEN s1.promise.reactions[i].onFulfilled
                                       ELSE s1.promise.reactions[i].onRejected
                        IN  [src |-> "reaction", cb |-> handler, alt |-> handler,
                             v |-> v, fired |-> FALSE]]
    IN  IF s1.promise.state = "pending"
        THEN [s1 EXCEPT !.promise.state = how, !.promise.v = v,
                        !.tasks = @ \o reactions]
        ELSE s1

\* promise.then(onFulfilled, onRejected): a reaction on a later turn, queued
\* at once when the promise is already settled.
PromiseThen(onFulfilled, onRejected, s) ==
    IF s.promise.state = "pending"
    THEN [s EXCEPT !.promise.reactions =
                      Append(@, [onFulfilled |-> onFulfilled, onRejected |-> onRejected])]
    ELSE LET handler == IF s.promise.state = "fulfilled" THEN onFulfilled ELSE onRejected
         IN  [s EXCEPT !.tasks = Append(@, [src |-> "reaction", cb |-> handler, alt |-> handler,
                                            v |-> s.promise.v, fired |-> FALSE])]

Call(cb, v, s) ==
    CASE cb.t = "callerFail" ->
            LET s1 == Emit([ev |-> "fail", arg |-> v], s)
            IN  IF cb.throws THEN Throw(v, s1) ELSE s1
      [] cb.t = "callerSucceed" ->
            LET s1 == Emit([ev |-> "succeed", arg |-> v], s)
            IN  IF cb.throws THEN Throw(900, s1) ELSE s1
      [] cb.t = "engagementFail" ->
            LET s1 == Emit([ev |-> "fail", arg |-> v, by |-> cb.by], s)
            IN  IF cb.throws THEN Throw(v, s1) ELSE s1
      [] cb.t = "engagementSucceed" ->
            LET s1 == Emit([ev |-> "succeed", arg |-> v, by |-> cb.by], s)
            IN  IF cb.throws THEN Throw(900, s1) ELSE s1
      [] cb.t = "flatMapResolve"    -> FlatMapResolve(cb, v, s)
      [] cb.t = "handleWithReject"  -> HandleWithReject(cb, v, s)
      [] cb.t = "errorMapReject"    -> ErrorMapReject(cb, v, s)
      [] cb.t = "gather2Reject"     -> Gather2Reject(cb, v, s)
      [] cb.t = "gather2Resolve"    -> Gather2Resolve(cb, v, s)
      [] cb.t = "allArrayReject"    -> AllArrayReject(cb, v, s)
      [] cb.t = "allArrayResolve"   -> AllArrayResolve(cb, v, s)
      [] cb.t = "promiseResolve"    -> PromiseSettle("fulfilled", v, s)
      [] cb.t = "promiseReject"     -> PromiseSettle("rejected", v, s)
      [] cb.t = "ignore"            -> s

----------------------------------------------------------------------------
\* The actions of the Futures: what this.action(reject, resolve) runs.

\* A user-written action: it throws, or starts a timer that settles later.
UserAction(action, rej, res, s) ==
    CASE action.b = "throw"        -> Throw(action.e, s)
      [] action.b = "laterResolve" -> SetTimeout(res, action.v, s)
      [] action.b = "laterReject"  -> SetTimeout(rej, action.e, s)

\* resolve called inside the try block: try { resolve(fn()); } catch (e) { reject(e); }
TryActionResolveInTry(r, ev, rej, res, s) ==
    LET s1 == Emit(ev, s)
        s2 == Call(res, r.val, s1)
    IN  IF r.thrown THEN Call(rej, r.val, s1)
        ELSE IF s2.exc.thrown THEN Call(rej, s2.exc.err, Caught(s2)) ELSE s2

\* tryF and encase: try { result = fn(); } catch (e) { return reject(e); } resolve(result);
TryAction(r, ev, rej, res, s) ==
    LET s1 == Emit(ev, s)
    IN  IF r.thrown THEN Call(rej, r.val, s1) ELSE Call(res, r.val, s1)

\* of settling on a later turn, as a resolved promise would.
ofActionLater(f, rej, res, s) == SetTimeout(res, f.result, s)

\* of: (_, resolve) => { resolve(result); }
ofAction(f, rej, res, s) == Call(res, f.result, s)

\* reject: (reject) => { reject(error); }
rejectAction(f, rej, res, s) == Call(rej, f.error, s)

tryFAction(f, rej, res, s) ==
    TryAction(InvokeFn(f.fn), [ev |-> "call", role |-> "fn", fn |-> f.fn, arg |-> <<>>, site |-> f], rej, res, s)

encaseAction(f, rej, res, s) ==
    TryAction(Apply(f.fn, f.a), [ev |-> "call", role |-> "fn", fn |-> f.fn, arg |-> <<f.a>>, site |-> f], rej, res, s)

\* The promise's value handed on during engage, without then/catch.
tryPActionEager(f, rej, res, s) ==
    LET r == InvokeFn(f.fn)
        s1 == Emit([ev |-> "call", role |-> "fn", fn |-> f.fn, arg |-> <<>>, site |-> f], s)
    IN  IF r.thrown THEN Call(rej, r.val, s1)
        ELSE IF r.val.settled = "fulfilled" THEN Call(res, r.val.v, s1)
        ELSE Call(rej, r.val.v, s1)

tryPAction(f, rej, res, s) ==
    LET r == InvokeFn(f.fn)
        s1 == Emit([ev |-> "call", role |-> "fn", fn |-> f.fn, arg |-> <<>>, site |-> f], s)
    IN  IF r.thrown THEN Call(rej, r.val, s1) ELSE ThenCatch(r.val, res, rej, s1)

\* The caller's resolve handed over where its reject belongs.
flatMapActionResolveOnFailure(f, rej, res, s) ==
    engageAndCatch(f.this, res,
                   [t |-> "flatMapResolve", site |-> f, next |-> f.next,
                    reject |-> rej, resolve |-> res],
                   TRUE, s)

flatMapAction(f, rej, res, s) ==
    engageAndCatch(f.this, rej,
                   [t |-> "flatMapResolve", site |-> f, next |-> f.next,
                    reject |-> rej, resolve |-> res],
                   TRUE, s)

handleWithAction(f, rej, res, s) ==
    engage(f.this,
           [t |-> "handleWithReject", site |-> f, errHandler |-> f.errHandler,
            reject |-> rej, resolve |-> res],
           res, s)

errorMapAction(f, rej, res, s) ==
    engageAndCatch(f.this, [t |-> "errorMapReject", site |-> f, mapper |-> f.mapper, reject |-> rej],
                   res, TRUE, s)

\* future2 engaged before future1.
gather2ActionFuture2First(f, rej, res, s) ==
    LET c == Len(s.cells) + 1
        s0 == [s EXCEPT !.cells = Append(@, NewCell)]
        s1 == engageAndCatch(f.future2,
                  [t |-> "gather2Reject", cell |-> c, reject |-> rej],
                  [t |-> "gather2Resolve", cell |-> c, index |-> 1, resolve |-> res],
                  TRUE, s0)
    IN  IF s1.exc.thrown THEN s1
        ELSE engageAndCatch(f.future1,
                  [t |-> "gather2Reject", cell |-> c, reject |-> rej],
                  [t |-> "gather2Resolve", cell |-> c, index |-> 0, resolve |-> res],
                  TRUE, s1)

\* future2 left alone once future1 has failed.
gather2ActionSkipFailed(f, rej, res, s) ==
    LET c == Len(s.cells) + 1
        s0 == [s EXCEPT !.cells = Append(@, NewCell)]
        s1 == engageAndCatch(f.future1,
                  [t |-> "gather2Reject", cell |-> c, reject |-> rej],
                  [t |-> "gather2Resolve", cell |-> c, index |-> 0, resolve |-> res],
                  TRUE, s0)
    IN  IF s1.exc.thrown \/ s1.cells[c].done THEN s1
        ELSE engageAndCatch(f.future2,
                  [t |-> "gather2Reject", cell |-> c, reject |-> rej],
                  [t |-> "gather2Resolve", cell |-> c, index |-> 1, resolve |-> res],
                  TRUE, s1)

\* results, count and done kept on the Future: one cell for every engagement.
gather2ActionSharedCell(f, rej, res, s) ==
    LET c == 1
        s0 == IF Len(s.cells) = 0 THEN [s EXCEPT !.cells = Append(@, NewCell)] ELSE s
        s1 == engageAndCatch(f.future1,
                  [t |-> "gather2Reject", cell |-> c, reject |-> rej],
                  [t |-> "gather2Resolve", cell |-> c, index |-> 0, resolve |-> res],
                  TRUE, s0)
    IN  IF s1.exc.thrown THEN s1
        ELSE engageAndCatch(f.future2,
                  [t |-> "gather2Reject", cell |-> c, reject |-> rej],
                  [t |-> "gather2Resolve", cell |-> c, index |-> 1, resolve |-> res],
                  TRUE, s1)

gather2Action(f, rej, res, s) ==
    LET c == Len(s.cells) + 1
        s0 == [s EXCEPT !.cells = Append(@, NewCell)]
        s1 == engageAndCatch(f.future1,
                  [t |-> "gather2Reject", cell |-> c, reject |-> rej],
                  [t |-> "gather2Resolve", cell |-> c, index |-> 0, resolve |-> res],
                  TRUE, s0)
    IN  IF s1.exc.thrown THEN s1
        ELSE engageAndCatch(f.future2,
                  [t |-> "gather2Reject", cell |-> c, reject |-> rej],
                  [t |-> "gather2Resolve", cell |-> c, index |-> 1, resolve |-> res],
                  TRUE, s1)

\* futures.forEach((futureInstance, index) => futureInstance.engageAndCatch(...)),
\* from the element at position i (1-based) on; index is i - 1.
forEach(futures, i, c, rej, res, s) ==
    IF i > Len(futures) \/ s.exc.thrown THEN s
    ELSE forEach(futures, i + 1, c, rej, res,
            engageAndCatch(futures[i],
                [t |-> "allArrayReject", reject |-> rej],
                [t |-> "allArrayResolve", cell |-> c, index |-> i - 1,
                 length |-> Len(futures), resolve |-> res],
                TRUE, s))

allArrayAction(f, rej, res, s) ==
    LET c == Len(s.cells) + 1
        s0 == [s EXCEPT !.cells = Append(@, NewCell)]
        s1 == IF Len(f.futures) = 0 THEN Call(res, s0.cells[c].results, s0) ELSE s0
    IN  forEach(f.futures, 1, c, rej, res, s1)

engage(f, rej, res, s) ==
    LET s1 == Emit([ev |-> "engage", f |-> f], s)
    IN  CASE f.k = "new"        -> UserAction(f.action, rej, res, s1)
          [] f.k = "of"         -> ofAction(f, rej, res, s1)
          [] f.k = "reject"     -> rejectAction(f, rej, res, s1)
          [] f.k = "tryF"       -> tryFAction(f, rej, res, s1)
          [] f.k = "tryP"       -> tryPAction(f, rej, res, s1)
          [] f.k = "encase"     -> encaseAction(f, rej, res, s1)
          [] f.k = "flatMap"    -> flatMapAction(f, rej, res, s1)
          [] f.k = "handleWith" -> handleWithAction(f, rej, res, s1)
          [] f.k = "errorMap"   -> errorMapAction(f, rej, res, s1)
          [] f.k = "gather2"    -> gather2Action(f, rej, res, s1)
          [] f.k = "allArray"   -> allArrayAction(f, rej, res, s1)

\* The try/catch left out: every engagement is a plain engage.
engageAndCatchUnsafe(f, rej, res, safe, s) == engage(f, rej, res, s)

\* try/finally written for try/catch: reject runs after every safe engage.
engageAndCatchFinally(f, rej, res, safe, s) ==
    IF safe
    THEN LET s1 == engage(f, rej, res, s)
         IN  Call(rej, s1.exc.err, Caught(s1))
    ELSE engage(f, rej, res, s)

engageAndCatch(f, rej, res, safe, s) ==
    IF safe
    THEN LET s1 == engage(f, rej, res, s)
         IN  IF s1.exc.thrown THEN Call(rej, s1.exc.err, Caught(s1)) ELSE s1
    ELSE engage(f, rej, res, s)

\* new Promise(executor): the constructor rejects the promise with whatever
\* the executor throws; s is the state the executor left.
ExecutorDone(s) ==
    IF s.exc.thrown THEN PromiseSettle("rejected", s.exc.err, Caught(s)) ELSE s

\* The two functions of the promise handed over in the order (resolve, reject).
toPromiseSwapped(f, s) ==
    ExecutorDone(engageAndCatch(f, [t |-> "promiseResolve"], [t |-> "promiseReject"], TRUE,
                                [s EXCEPT !.promise = PendingPromise]))

\* toPromise: new Promise((resolve, reject) => this.engageAndCatch(reject, resolve)).
\* The executor runs inside the constructor, which rejects the promise with
\* whatever the executor throws.
toPromise(f, s) ==
    ExecutorDone(engageAndCatch(f, [t |-> "promiseReject"], [t |-> "promiseResolve"], TRUE,
                                [s EXCEPT !.promise = PendingPromise]))

\* The promise made but the handlers not attached to it.
thenDetached(f, res, rej, s) == toPromise(f, s)

\* then(resolve, reject): this.toPromise().then(resolve, reject)
then(f, res, rej, s) == PromiseThen(res, rej, toPromise(f, s))

----------------------------------------------------------------------------
\* The program under construction and its run.
\*   pool : the Futures constructed so far, in the order of construction
\*   st   : the execution record
\*   pc   : "build" until the Future is started, then how it was started:
\*          "engaged", "toPromise", "then" or "await"
\*   caller : whether the caller's fail and succeed callbacks throw
\* The i-th Future constructed succeeds with i or fails with 100 + i, so
\* that the values tell the inputs apart.

\* A constructor that runs the action at once, as a Promise executor would.
ConstructEager(f, s) == Caught(engage(f, [t |-> "ignore"], [t |-> "ignore"], s))

\* constructor(action) { this.action = action; }
Construct(f, s) == s

LeafKinds == {"new", "of", "reject", "tryF", "tryP", "encase"}

RECURSIVE IsParallel(_)
IsParallel(f) ==
    CASE f.k \in LeafKinds -> FALSE
      [] f.k \in {"gather2", "allArray"} -> TRUE
      [] OTHER -> IsParallel(f.this)

RECURSIVE Depth(_)
Depth(f) ==
    CASE f.k \in LeafKinds -> 0
      [] f.k \in {"gather2", "allArray"} -> 0
      [] OTHER -> 1 + Depth(f.this)

OnlyLeaves == \A i \in 1..Len(pool) : pool[i].k \in LeafKinds

CanAdd == pc = "build" /\ Len(pool) < MaxInputs /\ OnlyLeaves

CanChain == pc = "build" /\ Len(pool) = 1 /\ ~IsParallel(pool[1]) /\ Depth(pool[1]) < MaxChain

Add(f) ==
    /\ pool' = Append(pool, f)
    /\ st' = Construct(f, st)
    /\ UNCHANGED <<pc, caller>>

Replace(f) ==
    /\ pool' = <<f>>
    /\ st' = Construct(f, st)
    /\ UNCHANGED <<pc, caller>>

Keys == <<"a", "b", "c", "d", "e", "f">>

Init ==
    /\ pool = <<>>
    /\ st = EmptyExec
    /\ pc = "build"
    /\ caller = [failThrows |-> FALSE, succeedThrows |-> FALSE]

NewFuture ==
    /\ CanAdd
    /\ LET i == Len(pool) + 1
       IN  \E action \in {[b |-> "throw", e |-> 100 + i],
                          [b |-> "laterResolve", v |-> i],
                          [b |-> "laterReject", e |-> 100 + i]} :
               Add(Future(action))

NewOf == CanAdd /\ Add(of(Len(pool) + 1))

NewReject == CanAdd /\ Add(reject(100 + Len(pool) + 1))

NewTryF ==
    /\ CanAdd /\ Len(pool) = 0
    /\ \E g \in {"plus10", "boom"} : Add(tryF([n |-> "thunk", g |-> Fn(g), a |-> 1]))

NewEncase ==
    /\ CanAdd /\ Len(pool) = 0
    /\ \E g \in {"plus10", "boom"} : Add(encase(Fn(g), 1))

NewTryP ==
    /\ CanAdd /\ Len(pool) = 0
    /\ \E fn \in {[n |-> "pResolve", v |-> 1], [n |-> "pReject", v |-> 101],
                  [n |-> "pThrow", v |-> 101]} :
           Add(tryP(fn))

Map ==
    /\ CanChain
    /\ \E mapper \in {"inc", "boom"} : Replace(map(pool[1], Fn(mapper)))

FlatMap ==
    /\ CanChain
    /\ \E next \in {"nextOf", "nextReject", "nextLater", "nextThrow"} :
           Replace(flatMap(pool[1], Fn(next)))

HandleWith ==
    /\ CanChain
    /\ \E errHandler \in {"hOf", "hReject", "hLater", "hThrow"} :
           Replace(handleWith(pool[1], Fn(errHandler)))

ErrorMap ==
    /\ CanChain
    /\ \E mapper \in {"tag", "boom"} : Replace(errorMap(pool[1], Fn(mapper)))

Gather2 ==
    /\ pc = "build" /\ Len(pool) = 2 /\ OnlyLeaves
    /\ Replace(gather2(pool[1], pool[2]))

Gather3 ==
    /\ pc = "build" /\ Len(pool) = 3 /\ OnlyLeaves
    /\ Replace(gather3(pool[1], pool[2], pool[3]))

Gather4 ==
    /\ pc = "build" /\ Len(pool) = 4 /\ OnlyLeaves
    /\ Replace(gather4(pool[1], pool[2], pool[3], pool[4]))

\* all(futures) on an array
AllArray ==
    /\ pc = "build" /\ OnlyLeaves /\ Len(pool) # 1
    /\ Replace(allArray(pool))

\* all(futures) on an object
AllObject ==
    /\ pc = "build" /\ OnlyLeaves /\ Len(pool) # 1
    /\ Replace(allObject([i \in 1..Len(pool) |-> [key |-> Keys[i], future |-> pool[i]]]))

\* engage with a try/catch around the action, as engageAndCatch has.
EngageCaught ==
    /\ pc = "build" /\ Len(pool) = 1
    /\ \E failThrows \in BOOLEAN, succeedThrows \in BOOLEAN :
          LET s1 == engageAndCatch(pool[1], CallerFail(failThrows),
                                   CallerSucceed(succeedThrows), TRUE, st)
          IN  /\ st' = IF s1.exc.thrown
                       THEN Emit([ev |-> "escaped", arg |-> s1.exc.err], Caught(s1))
                       ELSE s1
              /\ caller' = [failThrows |-> failThrows, succeedThrows |-> succeedThrows]
    /\ pc' = "engaged"
    /\ UNCHANGED pool

\* The caller's future.engage(fail, succeed), inside the caller's try/catch.
Engage ==
    /\ pc = "build" /\ Len(pool) = 1
    /\ \E failThrows \in BOOLEAN, succeedThrows \in BOOLEAN :
          LET s1 == engage(pool[1], CallerFail(failThrows), CallerSucceed(succeedThrows), st)
          IN  /\ st' = IF s1.exc.thrown
                       THEN Emit([ev |-> "escaped", arg |-> s1.exc.err], Caught(s1))
                       ELSE s1
              /\ caller' = [failThrows |-> failThrows, succeedThrows |-> succeedThrows]
    /\ pc' = "engaged"
    /\ UNCHANGED pool

RECURSIVE Inputs(_)
Inputs(f) ==
    CASE f.k \in LeafKinds -> 1
      [] f.k = "gather2"  -> Inputs(f.future1) + Inputs(f.future2)
      [] f.k = "allArray" -> Len(f.futures)
      [] OTHER -> Inputs(f.this)

CanPromise == pc = "build" /\ Len(pool) = 1 /\ Inputs(pool[1]) <= MaxPromised

\* future.toPromise()
ToPromise ==
    /\ CanPromise
    /\ st' = toPromise(pool[1], st)
    /\ pc' = "toPromise"
    /\ UNCHANGED <<pool, caller>>

\* future.then(succeed, fail) called by the caller
Then ==
    /\ CanPromise
    /\ \E failThrows \in BOOLEAN, succeedThrows \in BOOLEAN :
          /\ st' = then(pool[1], CallerSucceed(succeedThrows), CallerFail(failThrows), st)
          /\ caller' = [failThrows |-> failThrows, succeedThrows |-> succeedThrows]
    /\ pc' = "then"
    /\ UNCHANGED pool

\* await future, or a Future returned from a promise's then: the host calls
\* future.then with its own two functions, on a later turn.
Await ==
    /\ CanPromise
    /\ st' = [st EXCEPT !.tasks = Append(@, [src |-> "thenableJob", cb |-> [t |-> "ignore"],
                                             alt |-> [t |-> "ignore"], v |-> pool[1],
                                             fired |-> FALSE])]
    /\ pc' = "await"
    /\ UNCHANGED <<pool, caller>>

\* The end of a turn: what the host does with an exception the turn threw.
TurnDone(task, s) ==
    IF ~s.exc.thrown THEN s
    ELSE CASE task.src = "timer" ->
                  Emit([ev |-> "uncaught", arg |-> s.exc.err], Caught(s))
           [] task.src = "fulfilled" ->
                  [Caught(s) EXCEPT !.tasks = Append(@,
                      [src |-> "thenThrew", cb |-> task.alt, alt |-> task.alt,
                       v |-> s.exc.err, fired |-> FALSE])]
           [] task.src \in {"rejected", "thenThrew", "reaction", "thenableJob"} ->
                  Emit([ev |-> "unhandledRejection", arg |-> s.exc.err], Caught(s))

\* The body of a turn: the host calls future.then for a thenable job, and the
\* queued function with the queued value otherwise.
TurnBody(task, s) ==
    IF task.src = "thenableJob"
    THEN then(task.v, CallerSucceed(FALSE), CallerFail(FALSE), s)
    ELSE Call(task.cb, task.v, s)

\* One later turn of the host: a pending timer or promise reaction runs.
RunTask(i, s) ==
    TurnDone(s.tasks[i],
             TurnBody(s.tasks[i], Emit([ev |-> "turn", task |-> i],
                                       [s EXCEPT !.tasks[i].fired = TRUE])))

Fire ==
    /\ pc # "build"
    /\ \E i \in 1..Len(st.tasks) :
          /\ ~st.tasks[i].fired
          /\ st' = RunTask(i, st)
    /\ UNCHANGED <<pool, pc, caller>>

Next ==
    \/ NewFuture \/ NewOf \/ NewReject \/ NewTryF \/ NewEncase \/ NewTryP
    \/ Map \/ FlatMap \/ HandleWith \/ ErrorMap
    \/ Gather2 \/ Gather3 \/ Gather4 \/ AllArray \/ AllObject
    \/ Engage \/ ToPromise \/ Then \/ Await \/ Fire

Spec == Init /\ [][Next]_vars

----------------------------------------------------------------------------
\* Observations on the run.

Events(s, kind) == SelectSeq(s.log, LAMBDA e : e.ev = kind)

Fails == Events(st, "fail")

Succeeds == Events(st, "succeed")

Calls(s, role) == SelectSeq(s.log, LAMBDA e : e.ev = "call" /\ e.role = role)

Quiescent(s) == \A i \in 1..Len(s.tasks) : s.tasks[i].fired

Program == pool[1]

Engaged == pc = "engaged"

----------------------------------------------------------------------------
\* C1: laziness.  As long as the Future has only been created (by the
\* constructor, a static factory or a combinator) and not started, no action
\* and no user-supplied function has been invoked: the log holds no engage
\* and no call event.
Laziness ==
    pc = "build" =>
        \A i \in 1..Len(st.log) : st.log[i].ev \notin {"engage", "call"}

\* A chain and a parallel composition over user-written actions have been
\* created and are not started.
LazinessWitness ==
    /\ pc = "build"
    /\ Len(pool) = 1
    /\ pool[1].k = "flatMap"
    /\ pool[1].this.k = "gather2"
    /\ pool[1].this.future2.k = "new"

----------------------------------------------------------------------------
\* Futures built from of, reject, map, flatMap, handleWith and errorMap
\* alone, with user functions that return normally and return such Futures.
RECURSIVE BuiltFromConstants(_)
BuiltFromConstants(f) ==
    CASE f.k \in {"of", "reject"} -> TRUE
      [] f.k = "flatMap" ->
            /\ \/ f.next.n \in {"nextOf", "nextReject"}
               \/ f.next.n = "mapOf" /\ f.next.mapper.n = "inc"
            /\ BuiltFromConstants(f.this)
      [] f.k = "handleWith" ->
            f.errHandler.n \in {"hOf", "hReject"} /\ BuiltFromConstants(f.this)
      [] f.k = "errorMap" ->
            f.mapper.n = "tag" /\ BuiltFromConstants(f.this)
      [] OTHER -> FALSE

CallerReturns == ~caller.failThrows /\ ~caller.succeedThrows

\* C2: for a Future built from of, reject, map, flatMap, handleWith and
\* errorMap, with user functions and caller callbacks that do not throw, one
\* engage call makes exactly one callback invocation reach the caller:
\* succeed once or fail once, never both and never one of them twice.
ExactlyOneOutcome ==
    (Engaged /\ BuiltFromConstants(Program) /\ CallerReturns) =>
        Len(Fails) + Len(Succeeds) = 1

\* A failure recovered by handleWith below a flatMap has been engaged.
ExactlyOneOutcomeWitness ==
    /\ Engaged /\ BuiltFromConstants(Program) /\ CallerReturns
    /\ Program.k = "flatMap"
    /\ Program.this.k = "handleWith"
    /\ Len(Calls(st, "errHandler")) = 1
    /\ Len(Succeeds) = 1

----------------------------------------------------------------------------
\* The inputs of a parallel composition and their failures, in the order in
\* which they happen.

\* What an input does when it is engaged on its own.
Alone(f) == engage(f, CallerFail(FALSE), CallerSucceed(FALSE), EmptyExec)

\* The input fails before its engage returns: it calls reject, or throws.
FailsSync(f) == Alone(f).exc.thrown \/ Len(Events(Alone(f), "fail")) = 1

SyncError(f) ==
    IF Alone(f).exc.thrown THEN Alone(f).exc.err ELSE Events(Alone(f), "fail")[1].arg

SucceedsSync(f) == ~Alone(f).exc.thrown /\ Len(Events(Alone(f), "succeed")) = 1

SyncValue(f) == Events(Alone(f), "succeed")[1].arg

\* The input settles on a later turn, by a timer or a promise reaction.
FailsLater(f) ==
    /\ Len(Alone(f).tasks) = 1
    /\ Alone(f).tasks[1].cb.t = "callerFail"

SucceedsLater(f) ==
    /\ Len(Alone(f).tasks) = 1
    /\ Alone(f).tasks[1].cb.t = "callerSucceed"

LaterValue(f) == Alone(f).tasks[1].v

InputFails(f) == FailsSync(f) \/ FailsLater(f)

InputSucceeds(f) == SucceedsSync(f) \/ SucceedsLater(f)

ValueOf(f) == IF SucceedsSync(f) THEN SyncValue(f) ELSE LaterValue(f)

IsInput(inputs, f) == \E i \in 1..Len(inputs) : inputs[i] = f

\* The log event e is the failure of an input: the engage of an input that
\* fails before returning, or the turn on which an input's timer or
\* rejected promise calls its reject callback.
IsInputFailure(inputs, e) ==
    \/ e.ev = "engage" /\ IsInput(inputs, e.f) /\ FailsSync(e.f)
    \/ /\ e.ev = "turn"
       /\ st.tasks[e.task].src \in {"timer", "rejected"}
       /\ st.tasks[e.task].cb.t \in {"gather2Reject", "allArrayReject"}

InputFailureError(e) ==
    IF e.ev = "engage" THEN SyncError(e.f) ELSE st.tasks[e.task].v

\* The part of the log in which the inputs are engaged and complete: gather3,
\* gather4 and the keyed form of all call a mapper on the combined result,
\* after every input has succeeded.
InputLog ==
    LET IsMapperCall(i) == st.log[i].ev = "call" /\ st.log[i].role = "next"
    IN  IF \E i \in 1..Len(st.log) : IsMapperCall(i)
        THEN SubSeq(st.log, 1, (CHOOSE i \in 1..Len(st.log) :
                                   /\ IsMapperCall(i)
                                   /\ \A j \in 1..(i - 1) : ~IsMapperCall(j)) - 1)
        ELSE st.log

\* The errors of the inputs that have failed so far, in order of occurrence.
InputFailures(inputs) ==
    LET failures == SelectSeq(InputLog, LAMBDA e : IsInputFailure(inputs, e))
    IN  [i \in 1..Len(failures) |-> InputFailureError(failures[i])]

\* The log event e is the success of an input.
IsInputSuccess(inputs, e) ==
    \/ e.ev = "engage" /\ IsInput(inputs, e.f) /\ SucceedsSync(e.f)
    \/ /\ e.ev = "turn"
       /\ st.tasks[e.task].src \in {"timer", "fulfilled"}
       /\ st.tasks[e.task].cb.t \in {"gather2Resolve", "allArrayResolve"}

InputSuccesses(inputs) == SelectSeq(InputLog, LAMBDA e : IsInputSuccess(inputs, e))

Gather2Inputs == <<Program.future1, Program.future2>>

\* C3: gather2, once at least one input has failed: the combined fail
\* callback has been invoked exactly once, with the error of the input that
\* failed first in time (not in argument order); a later failure of the
\* other input is dropped, and the combined succeed callback is never
\* invoked.  This holds in every order in which the inputs complete.
Gather2FirstFailureWins ==
    (Engaged /\ Program.k = "gather2" /\ Len(InputFailures(Gather2Inputs)) >= 1) =>
        /\ Len(Fails) = 1
        /\ Fails[1].arg = InputFailures(Gather2Inputs)[1]
        /\ Len(Succeeds) = 0

\* Both inputs have failed and future2 failed first.
Gather2FirstFailureWinsWitness ==
    /\ Engaged /\ Program.k = "gather2"
    /\ Len(InputFailures(Gather2Inputs)) = 2
    /\ InputFailures(Gather2Inputs)[1] = 102
    /\ Fails = <<[ev |-> "fail", arg |-> 102]>>

----------------------------------------------------------------------------
IsAllArray(f) == f.k = "allArray"

IsAllObject(f) ==
    f.k = "flatMap" /\ f.next.n = "mapOf" /\ f.next.mapper.n = "rekey"

IsAll(f) == IsAllArray(f) \/ IsAllObject(f)

AllInputs == IF IsAllArray(Program) THEN Program.futures ELSE Program.this.futures

\* C4: all, array form and keyed form, once several elements have failed
\* (each by calling its reject callback, none by throwing):
\* the combined fail callback has been invoked exactly once, with the error
\* of the element that failed first in completion order; the later failures
\* are ignored and the combined succeed callback is never invoked.
AllFirstFailureWins ==
    (Engaged /\ IsAll(Program)
        /\ (\A i \in 1..Len(AllInputs) : ~Alone(AllInputs[i]).exc.thrown)
        /\ Len(InputFailures(AllInputs)) >= 2) =>
        /\ Len(Fails) = 1
        /\ Fails[1].arg = InputFailures(AllInputs)[1]
        /\ Len(Succeeds) = 0

\* C5: gather2 over two inputs that succeed: the combined succeed callback
\* is invoked exactly once, not before both inputs have succeeded, with the
\* pair [future1's value, future2's value] whichever input completes first,
\* and the fail callback is never invoked.
Gather2BothSucceed ==
    (Engaged /\ Program.k = "gather2"
        /\ InputSucceeds(Program.future1) /\ InputSucceeds(Program.future2)) =>
        /\ Len(Fails) = 0
        /\ Len(Succeeds) = (IF Len(InputSuccesses(Gather2Inputs)) = 2 THEN 1 ELSE 0)
        /\ Len(Succeeds) = 1 =>
              Succeeds[1].arg = (0 :> ValueOf(Program.future1)) @@ (1 :> ValueOf(Program.future2))

\* C6: all over an array whose elements all succeed: the combined succeed
\* callback is invoked exactly once, not before the last element has
\* succeeded, with an array as long as the input whose position i holds the
\* value of element i, in every order in which the elements complete.
AllArrayIndexFidelity ==
    (Engaged /\ IsAllArray(Program)
        /\ \A i \in 1..Len(Program.futures) : InputSucceeds(Program.futures[i])) =>
        /\ Len(Succeeds) =
              (IF Len(InputSuccesses(Program.futures)) = Len(Program.futures) THEN 1 ELSE 0)
        /\ Len(Succeeds) = 1 =>
              Succeeds[1].arg =
                  [i \in 0..(Len(Program.futures) - 1) |-> ValueOf(Program.futures[i + 1])]

\* Three elements have succeeded, the third first and the first last.
AllArrayIndexFidelityWitness ==
    /\ Engaged /\ IsAllArray(Program) /\ Len(Program.futures) = 3
    /\ \A i \in 1..3 : InputSucceeds(Program.futures[i])
    /\ Len(InputSuccesses(Program.futures)) = 3
    /\ InputSuccesses(Program.futures)[1].ev = "turn"
    /\ st.tasks[InputSuccesses(Program.futures)[1].task].v = 3
    /\ InputSuccesses(Program.futures)[3].ev = "turn"
    /\ st.tasks[InputSuccesses(Program.futures)[3].task].v = 1
    /\ Len(Succeeds) = 1

----------------------------------------------------------------------------
\* What a Future does when it is engaged on its own, with callbacks that
\* return, and every timer and promise reaction it starts has run.

RECURSIVE Drain(_)
Drain(s) ==
    IF Quiescent(s) THEN s
    ELSE Drain(RunTask(CHOOSE i \in 1..Len(s.tasks) :
                            /\ ~s.tasks[i].fired
                            /\ \A j \in 1..(i - 1) : s.tasks[j].fired,
                       s))

Settle(f) ==
    Drain(IF Alone(f).exc.thrown
          THEN Emit([ev |-> "escaped", arg |-> Alone(f).exc.err], Caught(Alone(f)))
          ELSE Alone(f))

\* f fails: it calls its reject callback once, and nothing else happens.
FailsOnce(f) ==
    /\ Len(Events(Settle(f), "fail")) = 1
    /\ Len(Events(Settle(f), "succeed")) = 0
    /\ Len(Events(Settle(f), "escaped")) = 0

FailureOf(f) == Events(Settle(f), "fail")[1].arg

\* f succeeds: it calls its resolve callback once, and nothing else happens.
SucceedsOnce(f) ==
    /\ Len(Events(Settle(f), "succeed")) = 1
    /\ Len(Events(Settle(f), "fail")) = 0
    /\ Len(Events(Settle(f), "escaped")) = 0

SuccessOf(f) == Events(Settle(f), "succeed")[1].arg

\* The calls of the function handed to the combinator f.
SiteCalls(f) == SelectSeq(st.log, LAMBDA e : e.ev = "call" /\ e.site = f)

IsChain(f) == ~IsParallel(f)

\* C7: failure short-circuit.  When the receiver of flatMap or map fails
\* with E, the continuation (or mapper) is never invoked, the caller's fail
\* callback receives E unchanged once the receiver has failed, and succeed
\* is never invoked.
FailureShortCircuit ==
    (Engaged /\ Program.k = "flatMap" /\ IsChain(Program) /\ FailsOnce(Program.this)) =>
        /\ Len(SiteCalls(Program)) = 0
        /\ Quiescent(st) => Len(Fails) >= 1
        /\ Len(Fails) >= 1 => Fails[1].arg = FailureOf(Program.this)
        /\ Len(Succeeds) = 0

\* The receiver of a flatMap has failed on a later turn and the caller's
\* fail callback has been called.
FailureShortCircuitWitness ==
    /\ Engaged /\ Program.k = "flatMap" /\ Program.next.n = "nextOf"
    /\ Program.this.k = "new" /\ FailsOnce(Program.this)
    /\ Quiescent(st)
    /\ Len(Fails) = 1

----------------------------------------------------------------------------
\* The callback invocations that have reached the caller, in order.
Outcomes == SelectSeq(st.log, LAMBDA e : e.ev \in {"fail", "succeed"})

\* The position in the log of the first call made at the site f.
CallIndex(f) ==
    CHOOSE i \in 1..Len(st.log) :
        /\ st.log[i].ev = "call" /\ st.log[i].site = f
        /\ \A j \in 1..(i - 1) : ~(st.log[j].ev = "call" /\ st.log[j].site = f)

\* The caller has received the outcome of g, before anything else, once the
\* run is over.
Delivered(g) ==
    /\ Quiescent(st) => Len(Outcomes) >= 1
    /\ Len(Outcomes) >= 1 =>
          Outcomes[1] = IF SucceedsOnce(g)
                        THEN [ev |-> "succeed", arg |-> SuccessOf(g)]
                        ELSE [ev |-> "fail", arg |-> FailureOf(g)]

\* C8: flatMap sequencing.  Engaging f.flatMap(next) first engages f; next
\* is invoked only once f has succeeded with v, exactly once and with v; the
\* Future it returns is engaged next, and the outcome of that Future (its
\* success value or its failure value) is what the caller's callbacks
\* receive.
FlatMapSequencing ==
    (Engaged /\ Program.k = "flatMap" /\ IsChain(Program)) =>
        /\ st.log[1] = [ev |-> "engage", f |-> Program]
        /\ st.log[2] = [ev |-> "engage", f |-> Program.this]
        /\ Len(SiteCalls(Program)) <= 1
        /\ (SucceedsOnce(Program.this) /\ Quiescent(st)) => Len(SiteCalls(Program)) = 1
        /\ Len(SiteCalls(Program)) = 1 =>
              /\ SucceedsOnce(Program.this)
              /\ SiteCalls(Program)[1].arg = SuccessOf(Program.this)
              /\ LET r == InvokeNext(Program.next, SuccessOf(Program.this))
                 IN  ~r.thrown =>
                        /\ st.log[CallIndex(Program) + 1] = [ev |-> "engage", f |-> r.val]
                        /\ Delivered(r.val)

\* C9: handleWith recovery.  When the receiver fails with E, the handler is
\* invoked exactly once, with E; the Future it returns is engaged, and the
\* outcome of that Future is the only outcome delivered to the caller, so E
\* itself never reaches the caller's fail callback.
HandleWithRecovery ==
    (Engaged /\ Program.k = "handleWith" /\ FailsOnce(Program.this)
        /\ ~InvokeErrHandler(Program.errHandler, FailureOf(Program.this)).thrown) =>
        LET repaired == InvokeErrHandler(Program.errHandler, FailureOf(Program.this)).val
        IN  /\ Len(SiteCalls(Program)) <= 1
            /\ Quiescent(st) => Len(SiteCalls(Program)) = 1
            /\ Len(SiteCalls(Program)) = 1 =>
                  /\ SiteCalls(Program)[1].arg = FailureOf(Program.this)
                  /\ st.log[CallIndex(Program) + 1] = [ev |-> "engage", f |-> repaired]
            /\ Len(Outcomes) <= 1
            /\ Delivered(repaired)
            /\ \A i \in 1..Len(Fails) : Fails[i].arg # FailureOf(Program.this)

\* C10: handleWith on success.  When the receiver succeeds with v, the
\* handler is never invoked and the caller's succeed callback receives v
\* unchanged.
HandleWithPassThrough ==
    (Engaged /\ Program.k = "handleWith" /\ SucceedsOnce(Program.this)) =>
        /\ Len(SiteCalls(Program)) = 0
        /\ Quiescent(st) => Len(Succeeds) >= 1
        /\ Len(Succeeds) >= 1 => Succeeds[1].arg = SuccessOf(Program.this)

----------------------------------------------------------------------------
\* The handleWith closest to the end of the chain: the program itself, or
\* the receiver of its last map, flatMap or errorMap.
HasHandler ==
    /\ Len(pool) = 1
    /\ \/ Program.k = "handleWith"
       \/ Program.k \in {"flatMap", "errorMap"} /\ Program.this.k = "handleWith"

HandlerSite == IF Program.k = "handleWith" THEN Program ELSE Program.this

\* The chain F.handleWith(h).map(m).
IsHandledThenMapped ==
    HasHandler /\ Program.k = "flatMap" /\ Program.next.n = "mapOf"

BothThrow == caller.failThrows /\ caller.succeedThrows

\* An exception has left the library: it reached the caller of engage or,
\* when the callbacks ran on a later turn, the host.
Propagated ==
    Len(Events(st, "escaped")) + Len(Events(st, "uncaught"))
        + Len(Events(st, "unhandledRejection")) >= 1

\* C11: handleWith scoping.  A handleWith handler is invoked only for a
\* failure of its receiver, never for an exception raised by a stage or a
\* callback later in the chain; in particular, for F.handleWith(h).map(m)
\* where F succeeds and the caller's succeed and fail callbacks both throw,
\* h is invoked zero times, m exactly once, and the exception propagates.
HandleWithScoping ==
    (Engaged /\ HasHandler) =>
        /\ Len(SiteCalls(HandlerSite)) <= Len(Events(Settle(HandlerSite.this), "fail"))
        /\ (IsHandledThenMapped /\ SucceedsOnce(HandlerSite.this)
                /\ BothThrow /\ Quiescent(st)) =>
              /\ Len(SiteCalls(HandlerSite)) = 0
              /\ Len(SiteCalls(Program)) = 1
              /\ Propagated

\* C12: recovery happens exactly once per handleWith site.  When the
\* receiver of a handleWith fails with E and the caller's succeed and fail
\* callbacks both throw, the handler is invoked exactly once and with E,
\* never a second time with the exception thrown downstream; in
\* F.handleWith(h).map(m) with a handler that recovers, m is invoked exactly
\* once; and the exception propagates.
RecoveryOncePerSite ==
    (Engaged /\ HasHandler /\ FailsOnce(HandlerSite.this) /\ BothThrow /\ Quiescent(st)) =>
        LET r == InvokeErrHandler(HandlerSite.errHandler, FailureOf(HandlerSite.this))
        IN  /\ Len(SiteCalls(HandlerSite)) = 1
            /\ SiteCalls(HandlerSite)[1].arg = FailureOf(HandlerSite.this)
            /\ (IsHandledThenMapped /\ ~r.thrown /\ SucceedsOnce(r.val)) =>
                  Len(SiteCalls(Program)) = 1
            /\ Propagated

----------------------------------------------------------------------------
\* A Future made by the constructor whose action throws when it is run.
ThrowsSync(f) == f.k = "new" /\ f.action.b = "throw"

Escaped == Events(st, "escaped")

----------------------------------------------------------------------------
\* Observations on a run started by toPromise, then or await.

Started == pc # "build" /\ Len(pool) = 1

\* The calls of the promise's resolve and reject functions, in order.
Settlings == SelectSeq(st.log, LAMBDA e : e.ev \in {"resolve", "reject"})

Fulfilled(v) == st.promise.state = "fulfilled" /\ st.promise.v = v

Rejected(e) == st.promise.state = "rejected" /\ st.promise.v = e

\* The program is F.map(mapper) with a mapper that throws.
IsMapThrowing == Program.k = "flatMap" /\ Program.next.n = "mapOf" /\ Program.next.mapper.n = "boom"

\* C15: a throwing mapper in map becomes a failure.  When the receiver
\* succeeds with v and the mapper throws e, then once the run is over the
\* caller's fail callback has been invoked with e and succeed has not been
\* invoked, whether the mapped Future was started by engage, by toPromise
\* (the promise is rejected with e) or by then.
MapThrowBecomesFailure ==
    (Started /\ IsMapThrowing /\ SucceedsOnce(Program.this) /\ Quiescent(st)) =>
        LET e == Apply(Program.next.mapper, SuccessOf(Program.this)).val
        IN  /\ pc = "toPromise" => Rejected(e)
            /\ pc # "toPromise" =>
                  /\ Len(Fails) >= 1
                  /\ Fails[1].arg = e
                  /\ Len(Succeeds) = 0

----------------------------------------------------------------------------
IsMap(f) == f.k = "flatMap" /\ f.next.n = "mapOf"

\* C16: map on success.  When the receiver succeeds with v and the mapper
\* returns, the mapper is invoked exactly once, with v, and the caller's
\* succeed callback receives mapper(v); stages apply in the order written:
\* of(v).map(x => x + 1).flatMap(x => of(x * 2)) succeeds with (v + 1) * 2.
MapOnSuccess ==
    /\ (Engaged /\ IsMap(Program) /\ SucceedsOnce(Program.this) /\ Quiescent(st)
            /\ ~Apply(Program.next.mapper, SuccessOf(Program.this)).thrown) =>
          /\ Len(SiteCalls(Program)) = 1
          /\ SiteCalls(Program)[1].arg = SuccessOf(Program.this)
          /\ Len(Succeeds) >= 1
          /\ Succeeds[1].arg = Apply(Program.next.mapper, SuccessOf(Program.this)).val
    /\ (Engaged /\ Program.k = "flatMap" /\ Program.next.n = "nextOf"
            /\ IsMap(Program.this) /\ Program.this.next.mapper.n = "inc"
            /\ Program.this.this.k = "of") =>
          /\ Len(Succeeds) >= 1
          /\ Succeeds[1].arg = (Program.this.this.result + 1) * 2

----------------------------------------------------------------------------
\* C17: errorMap transforms only failures.  When the receiver fails with E
\* (and the mapper returns), the caller's fail callback receives mapper(E)
\* and succeed is not invoked; when the receiver succeeds with v, the mapper
\* is never invoked and succeed receives v unchanged.
ErrorMapOnlyFailures ==
    /\ (Engaged /\ Program.k = "errorMap" /\ FailsOnce(Program.this) /\ Quiescent(st)
            /\ ~Apply(Program.mapper, FailureOf(Program.this)).thrown) =>
          /\ Len(Fails) >= 1
          /\ Fails[1].arg = Apply(Program.mapper, FailureOf(Program.this)).val
          /\ Len(Succeeds) = 0
    /\ (Engaged /\ Program.k = "errorMap" /\ SucceedsOnce(Program.this) /\ Quiescent(st)) =>
          /\ Len(SiteCalls(Program)) = 0
          /\ Len(Succeeds) >= 1
          /\ Succeeds[1].arg = SuccessOf(Program.this)

----------------------------------------------------------------------------
\* C18: toPromise engages the Future at once (its action has run when
\* toPromise returns) and returns a promise that is fulfilled with the value
\* passed to succeed, or rejected with the value passed to fail or thrown
\* synchronously by the action; the promise settles at most once: it keeps
\* the value of the first call, and stays pending until then.
ToPromiseSettles ==
    (pc = "toPromise") =>
        /\ st.log[1] = [ev |-> "engage", f |-> Program]
        /\ Len(Settlings) = 0 => st.promise.state = "pending"
        /\ Len(Settlings) >= 1 =>
              IF Settlings[1].ev = "resolve"
              THEN Fulfilled(Settlings[1].arg) ELSE Rejected(Settlings[1].arg)
        /\ ThrowsSync(Program) => Rejected(Program.action.e)
        /\ (SucceedsOnce(Program) /\ Quiescent(st)) => Fulfilled(SuccessOf(Program))
        /\ (IsChain(Program) /\ FailsOnce(Program) /\ Quiescent(st)) =>
              Rejected(FailureOf(Program))

\* toPromise was called on all([...]) of two Futures that fail: reject was
\* called twice and the promise keeps the first error.
ToPromiseSettlesWitness ==
    /\ pc = "toPromise" /\ Len(pool) = 1 /\ Program.k = "allArray"
    /\ Len(Settlings) = 2
    /\ Settlings[1].arg # Settlings[2].arg
    /\ Rejected(Settlings[1].arg)

\* C19: thenable round trip.  A Future that is awaited, or returned from a
\* promise's then, is engaged when the host invokes its then, not before;
\* started through then, a Future that succeeds with v hands v to the
\* success handler and one that fails with E hands E to the failure
\* handler, each exactly once and never both.
ThenableRoundTrip ==
    /\ (pc = "await" /\ ~st.tasks[1].fired) => st.log = <<>>
    /\ (pc = "await" /\ st.tasks[1].fired) =>
          /\ st.log[1] = [ev |-> "turn", task |-> 1]
          /\ st.log[2] = [ev |-> "engage", f |-> Program]
    /\ (pc = "then") => st.log[1] = [ev |-> "engage", f |-> Program]
    /\ (pc \in {"then", "await"} /\ SucceedsOnce(Program) /\ Quiescent(st)) =>
          /\ Succeeds = <<[ev |-> "succeed", arg |-> SuccessOf(Program)]>>
          /\ Len(Fails) = 0
    /\ (pc \in {"then", "await"} /\ IsChain(Program) /\ FailsOnce(Program) /\ Quiescent(st)) =>
          /\ Fails = <<[ev |-> "fail", arg |-> FailureOf(Program)]>>
          /\ Len(Succeeds) = 0

\* await of(1).map(x => x + 1) has yielded 2.
ThenableRoundTripWitness ==
    /\ pc = "await" /\ Quiescent(st)
    /\ IsMap(Program) /\ Program.this.k = "of"
    /\ Succeeds = <<[ev |-> "succeed", arg |-> 2]>>

----------------------------------------------------------------------------
\* The Future a chain starts from, or the first input of a parallel
\* composition.
RECURSIVE FirstLeaf(_)
FirstLeaf(f) ==
    CASE f.k \in LeafKinds -> f
      [] f.k = "gather2"  -> FirstLeaf(f.future1)
      [] f.k = "allArray" -> IF Len(f.futures) = 0 THEN f ELSE f.futures[1]
      [] OTHER -> FirstLeaf(f.this)

IsTry(f) == f.k \in {"tryF", "encase"}

\* What the function of a tryF or encase Future does: fn(), or fn(a).
TryResult(f) == IF f.k = "tryF" THEN InvokeFn(f.fn) ELSE Apply(f.fn, f.a)

\* tryF(() => fn(a)), for the Future encase(fn, a).
AsTryF(f) == tryF([n |-> "thunk", g |-> f.fn, a |-> f.a])

\* The run of a Future engaged with the caller's callbacks, without the
\* engage and call events.
Outcome(f) ==
    LET s == engage(f, CallerFail(caller.failThrows), CallerSucceed(caller.succeedThrows),
                    EmptyExec)
    IN  [log |-> SelectSeq(s.log, LAMBDA e : e.ev \in {"fail", "succeed"}), exc |-> s.exc]

\* C20: tryF and encase capture exceptions.  fn is not called before the
\* Future is engaged and exactly once per engagement (encase calls it with
\* its argument); if it returns v, succeed(v) is invoked and fail is not; if
\* it throws e, fail(e) is invoked and succeed is not; and encase(fn, a) has
\* the outcome of tryF(() => fn(a)).
TryCapturesException ==
    /\ pc = "build" => Len(Calls(st, "fn")) = 0
    /\ (Engaged /\ IsTry(FirstLeaf(Program))) => Len(Calls(st, "fn")) = 1
    /\ (Engaged /\ IsTry(Program)) =>
          /\ Len(SiteCalls(Program)) = 1
          /\ Program.k = "encase" => SiteCalls(Program)[1].arg = <<Program.a>>
          /\ ~TryResult(Program).thrown =>
                /\ Succeeds = <<[ev |-> "succeed", arg |-> TryResult(Program).val]>>
                /\ Len(Fails) = 0
          /\ TryResult(Program).thrown =>
                /\ Fails = <<[ev |-> "fail", arg |-> TryResult(Program).val]>>
                /\ Len(Succeeds) = 0
    /\ (Engaged /\ Program.k = "encase") =>
          /\ Outcomes = Outcome(AsTryF(Program)).log
          /\ Len(Escaped) = (IF Outcome(AsTryF(Program)).exc.thrown THEN 1 ELSE 0)

\* tryF of a function that returns has been engaged with a succeed callback
\* that throws: succeed was called, fail was not, the exception escaped.
TryCapturesExceptionWitness ==
    /\ Engaged /\ Program.k = "tryF" /\ caller.succeedThrows
    /\ Len(Succeeds) = 1 /\ Len(Fails) = 0 /\ Len(Escaped) = 1

----------------------------------------------------------------------------
\* The first turn of the host after the engage call has run.
FirstTurnRun == Len(st.tasks) >= 1 /\ st.tasks[1].fired

\* C21: tryP.  When fn throws synchronously the Future fails during engage
\* with the thrown value and succeed is never invoked; otherwise nothing
\* reaches the caller before engage has returned, and on a later turn the
\* value the promise is fulfilled with is passed to succeed, or the value it
\* is rejected with is passed to fail.
TryPForwards ==
    (Engaged /\ Program.k = "tryP") =>
        LET r == InvokeFn(Program.fn)
        IN  /\ Len(SiteCalls(Program)) = 1
            /\ r.thrown =>
                  /\ st.log[3] = [ev |-> "fail", arg |-> r.val]
                  /\ Len(Fails) = 1
                  /\ Len(Succeeds) = 0
                  /\ Len(st.tasks) = 0
            /\ ~r.thrown =>
                  /\ Len(st.tasks) >= 1
                  /\ ~FirstTurnRun => Len(Outcomes) = 0
                  /\ (FirstTurnRun /\ r.val.settled = "fulfilled") =>
                        Succeeds = <<[ev |-> "succeed", arg |-> r.val.v]>>
                  /\ (FirstTurnRun /\ r.val.settled = "rejected") =>
                        /\ Fails = <<[ev |-> "fail", arg |-> r.val.v]>>
                        /\ Len(Succeeds) = 0

\* tryP of a function whose promise is fulfilled with 1 has been engaged,
\* engage has returned, and a later turn has passed 1 to succeed.
TryPForwardsWitness ==
    /\ Engaged /\ Program.k = "tryP" /\ Program.fn.n = "pResolve"
    /\ Quiescent(st)
    /\ st.log[3] = [ev |-> "turn", task |-> 1]
    /\ Succeeds = <<[ev |-> "succeed", arg |-> 1]>>

----------------------------------------------------------------------------
\* The run of one engagement of f on its own, with callbacks that throw or
\* return as told.
EngagedAlone(f, failThrows, succeedThrows) ==
    engage(f, CallerFail(failThrows), CallerSucceed(succeedThrows), EmptyExec)

\* The log event at position i is the engagement of a Future of kind k, by
\* the caller or by the library.
IsEngageOf(i, k) == st.log[i].ev = "engage" /\ st.log[i].f.k = k

\* C22: of(v) and reject(e) are synchronous constants.  Every engagement of
\* of(v) invokes succeed(v) exactly once before engage returns and never
\* invokes fail; every engagement of reject(e) invokes fail(e) exactly once
\* before engage returns and never invokes succeed.  Checked on the direct
\* engage of the caller and on every of/reject Future the library engages.
ConstantsSynchronous ==
    /\ (Engaged /\ Program.k = "of") =>
          /\ Succeeds = <<[ev |-> "succeed", arg |-> Program.result]>>
          /\ Len(Fails) = 0 /\ Len(st.tasks) = 0
    /\ (Engaged /\ Program.k = "reject") =>
          /\ Fails = <<[ev |-> "fail", arg |-> Program.error]>>
          /\ Len(Succeeds) = 0 /\ Len(st.tasks) = 0
    /\ \A i \in 1..Len(st.log) : \A failThrows \in BOOLEAN, succeedThrows \in BOOLEAN :
          /\ IsEngageOf(i, "of") =>
                /\ EngagedAlone(st.log[i].f, failThrows, succeedThrows).log =
                      <<st.log[i], [ev |-> "succeed", arg |-> st.log[i].f.result]>>
                /\ Len(EngagedAlone(st.log[i].f, failThrows, succeedThrows).tasks) = 0
          /\ IsEngageOf(i, "reject") =>
                /\ EngagedAlone(st.log[i].f, failThrows, succeedThrows).log =
                      <<st.log[i], [ev |-> "fail", arg |-> st.log[i].f.error]>>
                /\ Len(EngagedAlone(st.log[i].f, failThrows, succeedThrows).tasks) = 0

\* of(1) has been engaged with a succeed callback that throws: succeed was
\* called once, fail was not, and the exception left engage.
ConstantsSynchronousWitness ==
    /\ Engaged /\ Program.k = "of" /\ caller.succeedThrows
    /\ Succeeds = <<[ev |-> "succeed", arg |-> 1]>>
    /\ Len(Fails) = 0 /\ Len(Escaped) = 1

----------------------------------------------------------------------------
\* The engagements of the Future f logged so far.
Engagements(f) ==
    SelectSeq(st.log, LAMBDA e : e.ev = "engage" /\ e.f.k = f.k /\ e.f = f)

\* C23 as stated: gather2 tie-break.  When both inputs fail synchronously,
\* the combined failure is future1's error (the left operand), and future2
\* is still engaged (its action runs) although its failure is discarded.
Gather2TieBreak ==
    (Engaged /\ Program.k = "gather2"
        /\ FailsSync(Program.future1) /\ FailsSync(Program.future2)) =>
        /\ Fails = <<[ev |-> "fail", arg |-> SyncError(Program.future1)]>>
        /\ Len(Succeeds) = 0
        /\ Len(Engagements(Program.future1)) = 1
        /\ Len(Engagements(Program.future2)) = 1

\* C23 as amended: when both inputs fail synchronously, the combined
\* failure is future1's error and fail is invoked once; future2 is still
\* engaged and its failure discarded, except when future1 failed by throwing
\* from its action and the combined fail callback itself throws: then the
\* exception leaves engage and future2 is not engaged.
Gather2TieBreakUnlessFailThrows ==
    (Engaged /\ Program.k = "gather2"
        /\ FailsSync(Program.future1) /\ FailsSync(Program.future2)) =>
        /\ Fails = <<[ev |-> "fail", arg |-> SyncError(Program.future1)]>>
        /\ Len(Succeeds) = 0
        /\ Len(Engagements(Program.future1)) = 1
        /\ Len(Engagements(Program.future2)) =
              (IF ThrowsSync(Program.future1) /\ caller.failThrows THEN 0 ELSE 1)
        /\ Len(Escaped) =
              (IF ThrowsSync(Program.future1) /\ caller.failThrows THEN 1 ELSE 0)

\* gather2 of a Future whose action throws and of reject(102) has been
\* engaged: fail received 101 and reject(102) was engaged all the same.
Gather2TieBreakWitness ==
    /\ Engaged /\ Program.k = "gather2"
    /\ ThrowsSync(Program.future1) /\ Program.future2.k = "reject"
    /\ Fails = <<[ev |-> "fail", arg |-> 101]>>
    /\ Len(Engagements(Program.future2)) = 1

----------------------------------------------------------------------------
\* gather2 and the array form of all, and the Futures handed to them.
IsGather(f) == f.k \in {"gather2", "allArray"}

GatherInputs == IF Program.k = "gather2" THEN Gather2Inputs ELSE Program.futures

\* The positions in the log of the engagements, of the turns and of the
\* calls of the caller's callbacks.
EngagePositions == {i \in 1..Len(st.log) : st.log[i].ev = "engage"}

TurnPositions == {i \in 1..Len(st.log) : st.log[i].ev = "turn"}

OutcomePositions == {i \in 1..Len(st.log) : st.log[i].ev \in {"fail", "succeed"}}

\* The Futures engaged after the program itself, in the order of engagement.
EngagedInputs ==
    LET engagements == SelectSeq(st.log, LAMBDA e : e.ev = "engage")
    IN  [i \in 1..(Len(engagements) - 1) |-> engagements[i + 1].f]

\* C24 as stated: initiation before continuation.  When a gather2 or
\* array-all Future is engaged, all of its inputs are engaged, in the order
\* given, before any continuation runs, in particular before the combined
\* fail or succeed callback is invoked.
InitiationBeforeContinuation ==
    (Engaged /\ IsGather(Program)) =>
        /\ EngagedInputs = SubSeq(GatherInputs, 1, Len(EngagedInputs))
        /\ \A o \in OutcomePositions :
              Cardinality({i \in EngagePositions : i < o}) = Len(GatherInputs) + 1

\* C24 as amended: the inputs of a gather2 or array-all Future are engaged
\* in the order given, one after another inside the engage call, hence
\* before any continuation that runs on a later turn; every input has been
\* engaged when engage returns without an exception.  An input that
\* completes synchronously runs its continuation at once: the combined fail
\* or succeed callback can be invoked before the later inputs are engaged.
InitiationBeforeLaterTurns ==
    (Engaged /\ IsGather(Program)) =>
        /\ EngagedInputs = SubSeq(GatherInputs, 1, Len(EngagedInputs))
        /\ \A i \in EngagePositions : \A t \in TurnPositions : i < t
        /\ Len(Escaped) = 0 => Len(EngagedInputs) = Len(GatherInputs)

\* all of three Futures, the second being reject(102), has been engaged:
\* fail was called before the third Future was engaged, and one input
\* completed on a later turn after all three had been engaged.
InitiationBeforeLaterTurnsWitness ==
    /\ Engaged /\ IsAllArray(Program) /\ Len(Program.futures) = 3
    /\ Program.futures[1].k = "new" /\ Program.futures[2].k = "reject"
    /\ Len(EngagedInputs) = 3
    /\ \E o \in OutcomePositions : Cardinality({i \in EngagePositions : i < o}) = 3
    /\ TurnPositions # {}

----------------------------------------------------------------------------
\* The Futures handed to gather2, gather3, gather4 or all, in argument order.
RECURSIVE LeafInputs(_)
LeafInputs(f) ==
    CASE f.k \in LeafKinds -> <<f>>
      [] f.k = "gather2"  -> LeafInputs(f.future1) \o LeafInputs(f.future2)
      [] f.k = "allArray" -> f.futures
      [] OTHER -> LeafInputs(f.this)

\* The inputs engaged before the log position o, in the order of engagement.
EngagedBefore(o) ==
    LET engagements == SelectSeq(SubSeq(st.log, 1, o - 1),
                                 LAMBDA e : e.ev = "engage" /\ e.f.k \in LeafKinds)
    IN  [i \in 1..Len(engagements) |-> engagements[i].f]

\* The calls of the caller's fail callback made inside the engage call.
SyncFailPositions ==
    {o \in 1..Len(st.log) : st.log[o].ev = "fail" /\ \A t \in TurnPositions : o < t}

SomeInputFailsSync(f) == \E i \in 1..Len(LeafInputs(f)) : FailsSync(LeafInputs(f)[i])

\* C25: when an input of gather2, gather3, gather4 or all fails
\* synchronously, the combined fail callback is invoked at a moment when
\* every earlier input and the failing input have been engaged and no later
\* input has been engaged yet.
SyncFailureBeforeLaterInputs ==
    (Engaged /\ IsParallel(Program) /\ SomeInputFailsSync(Program)) =>
        /\ SyncFailPositions # {}
        /\ \A o \in SyncFailPositions :
              /\ Len(EngagedBefore(o)) >= 1
              /\ EngagedBefore(o) = SubSeq(LeafInputs(Program), 1, Len(EngagedBefore(o)))
              /\ FailsSync(LeafInputs(Program)[Len(EngagedBefore(o))])
              /\ st.log[o].arg = SyncError(LeafInputs(Program)[Len(EngagedBefore(o))])

\* gather3 whose second input is reject(102) has been engaged: fail was
\* called when two inputs had been engaged, and the third was engaged after.
SyncFailureBeforeLaterInputsWitness ==
    /\ Engaged /\ IsMap(Program) /\ Program.next.mapper.n = "flatten3"
    /\ LeafInputs(Program)[2].k = "reject"
    /\ \E o \in SyncFailPositions : Len(EngagedBefore(o)) = 2
    /\ Len(EngagedBefore(Len(st.log) + 1)) = 3

----------------------------------------------------------------------------
IsGather3(f) == IsMap(f) /\ f.next.mapper.n = "flatten3"

IsGather4(f) == IsMap(f) /\ f.next.mapper.n = "flatten4"

\* The inputs engaged so far, not counting the Future the flattening map
\* makes of the combined result.
InputsEngaged ==
    EngagedBefore(IF Len(SiteCalls(Program)) = 0 THEN Len(st.log) + 1 ELSE CallIndex(Program))

AllInputsSucceed(f) == \A i \in 1..Len(LeafInputs(f)) : InputSucceeds(LeafInputs(f)[i])

\* The tuple [r1, ..., rn] of the inputs' values, in argument order.
FlatTuple(f) == [i \in 0..(Len(LeafInputs(f)) - 1) |-> ValueOf(LeafInputs(f)[i + 1])]

\* C26: gather3(f1, f2, f3) is gather2(gather2(f1, f2), f3) and
\* gather4(f1, f2, f3, f4) is gather2(gather2(f1, f2), gather2(f3, f4)),
\* followed by a flattening map: inputs are never engaged out of argument
\* order, and when all succeed every input is engaged, in the order f1, f2,
\* f3 (, f4), and the combined succeed callback is invoked exactly once, not
\* before the last input has succeeded, with the flat tuple
\* [r1, r2, r3 (, r4)] in argument order, in every completion order.
GatherNFlattens ==
    LET Pair == Program.this
    IN  /\ (Engaged /\ IsGather3(Program)) =>
              /\ Pair = gather2(gather2(LeafInputs(Program)[1], LeafInputs(Program)[2]),
                               LeafInputs(Program)[3])
              /\ Len(LeafInputs(Program)) = 3
        /\ (Engaged /\ IsGather4(Program)) =>
              /\ Pair = gather2(gather2(LeafInputs(Program)[1], LeafInputs(Program)[2]),
                               gather2(LeafInputs(Program)[3], LeafInputs(Program)[4]))
              /\ Len(LeafInputs(Program)) = 4
        /\ (Engaged /\ (IsGather3(Program) \/ IsGather4(Program))) =>
              /\ \A a, b \in 1..Len(InputsEngaged) :
                    a < b => IndexOf(LeafInputs(Program), InputsEngaged[a])
                                < IndexOf(LeafInputs(Program), InputsEngaged[b])
              /\ AllInputsSucceed(Program) =>
                    /\ InputsEngaged = LeafInputs(Program)
                    /\ Len(Succeeds) =
                          (IF Len(InputSuccesses(LeafInputs(Program))) = Len(LeafInputs(Program))
                           THEN 1 ELSE 0)
                    /\ Len(Succeeds) = 1 => Succeeds[1].arg = FlatTuple(Program)

\* gather4 over four Futures that succeed on later turns, the fourth first:
\* succeed has been called once.
GatherNFlattensWitness ==
    /\ Engaged /\ IsGather4(Program) /\ AllInputsSucceed(Program)
    /\ Len(InputSuccesses(LeafInputs(Program))) = 4
    /\ InputSuccesses(LeafInputs(Program))[1].ev = "turn"
    /\ st.tasks[InputSuccesses(LeafInputs(Program))[1].task].v = 4
    /\ Len(Succeeds) = 1

----------------------------------------------------------------------------
\* C27: gather3 and gather4, once at least one input has failed: the
\* combined fail callback has been invoked exactly once, with the error of
\* the input that failed first in time (an input failing synchronously
\* before one failing on a later turn; of the inputs failing on later turns
\* the one whose turn comes first), and the combined succeed callback is
\* never invoked.
GatherNFirstFailureWins ==
    (Engaged /\ (IsGather3(Program) \/ IsGather4(Program))
        /\ Len(InputFailures(LeafInputs(Program))) >= 1) =>
        /\ Len(Fails) = 1
        /\ Fails[1].arg = InputFailures(LeafInputs(Program))[1]
        /\ Len(Succeeds) = 0

----------------------------------------------------------------------------
\* The executions of gather4 over every choice of four inputs, callbacks
\* and order of the later turns, as runs of engage and RunTask.

\* The Futures the i-th input is chosen from.
LeafChoices(i) ==
    {Future([b |-> "throw", e |-> 100 + i]), Future([b |-> "laterResolve", v |-> i]),
     Future([b |-> "laterReject", e |-> 100 + i]), of(i), reject(100 + i)}

\* The caller's engage call, inside the caller's try/catch.
EngageRun(f, failThrows, succeedThrows) ==
    LET s == EngagedAlone(f, failThrows, succeedThrows)
    IN  IF s.exc.thrown THEN Emit([ev |-> "escaped", arg |-> s.exc.err], Caught(s)) ELSE s

\* The error of the input that failed at the log event e of the run s, or 0
\* when e is not the failure of an input.
FailureAt(s, e) ==
    IF e.ev = "engage" /\ e.f.k \in LeafKinds /\ FailsSync(e.f) THEN SyncError(e.f)
    ELSE IF e.ev = "turn" /\ s.tasks[e.task].cb.t = "gather2Reject" THEN s.tasks[e.task].v
    ELSE 0

\* The errors of the inputs that failed in the run s, in order of occurrence.
FailuresIn(s) ==
    LET failures == SelectSeq(s.log, LAMBDA e : FailureAt(s, e) # 0)
    IN  [i \in 1..Len(failures) |-> FailureAt(s, failures[i])]

\* In the run s the third or fourth input failed earliest and the first
\* failure reported to the caller is that of the first or second input.
Masked(s) ==
    /\ Len(FailuresIn(s)) >= 1
    /\ FailuresIn(s)[1] \in {103, 104}
    /\ Len(Events(s, "fail")) >= 1
    /\ Events(s, "fail")[1].arg \in {101, 102}

\* Some order of the remaining later turns leads from s to a masked run.
RECURSIVE MaskedRunFrom(_)
MaskedRunFrom(s) ==
    IF Quiescent(s) THEN Masked(s)
    ELSE \E i \in 1..Len(s.tasks) : ~s.tasks[i].fired /\ MaskedRunFrom(RunTask(i, s))

\* C28 as stated: nested-pairwise failure in gather4.  Before anything is
\* constructed, there is an execution ahead in which f3 or f4 fails earliest
\* and the failure reported is nevertheless the pairwise-first failure of
\* f1/f2.
Gather4MaskingExists ==
    (pc = "build" /\ pool = <<>>) =>
    \E f1 \in LeafChoices(1), f2 \in LeafChoices(2), f3 \in LeafChoices(3),
       f4 \in LeafChoices(4), failThrows \in BOOLEAN, succeedThrows \in BOOLEAN :
        MaskedRunFrom(EngageRun(gather4(f1, f2, f3, f4), failThrows, succeedThrows))

\* C28 as amended: in gather4 a pair fails as soon as one of its inputs
\* fails, without waiting for the partner, and the failure reported is that
\* of the pair that fails first: always the chronologically first failure
\* among the four inputs.  When f3 or f4 fails earliest its error is what
\* fail receives first, never the failure of f1/f2.
Gather4ReportsEarliestFailure ==
    (Engaged /\ IsGather4(Program) /\ Len(InputFailures(LeafInputs(Program))) >= 1) =>
        /\ Len(Fails) >= 1
        /\ Fails[1].arg = InputFailures(LeafInputs(Program))[1]
        /\ InputFailures(LeafInputs(Program))[1] \in {103, 104} =>
              \A i \in 1..Len(Fails) : Fails[i].arg \notin {101, 102}

\* gather4 in which f3 has failed on a later turn while f4 is still pending,
\* and f1 has failed after it: fail received f3's error.
Gather4ReportsEarliestFailureWitness ==
    /\ Engaged /\ IsGather4(Program)
    /\ InputFailures(LeafInputs(Program)) = <<103, 101>>
    /\ \E t \in 1..Len(st.tasks) : ~st.tasks[t].fired /\ st.tasks[t].v \in {4, 104}
    /\ Fails = <<[ev |-> "fail", arg |-> 103]>>

----------------------------------------------------------------------------
\* all([]) or all({}).
IsEmptyAll(f) == IsAll(f) /\ Len(LeafInputs(f)) = 0

\* The empty array, and the empty object.
EmptyResult == <<>>

\* C29: empty input.  Engaging all([]) or all({}) invokes succeed exactly
\* once, synchronously during engage, with an empty array or an empty
\* object, never invokes fail, and engages no element.
EmptyAllSucceeds ==
    (Engaged /\ IsEmptyAll(Program)) =>
        /\ Succeeds = <<[ev |-> "succeed", arg |-> EmptyResult]>>
        /\ Len(Fails) = 0
        /\ Len(st.tasks) = 0
        /\ Len(InputsEngaged) = 0

----------------------------------------------------------------------------
\* The keyed form of all against the array form over the same Futures.

\* The run s continued by the later turns of the sequence turns, in order.
RECURSIVE Replay(_, _)
Replay(s, turns) ==
    IF turns = <<>> THEN s
    ELSE Replay(RunTask(Head(turns).task, s), Tail(turns))

\* What the array form over the Futures of the keyed program does, engaged
\* with the same callbacks and followed by the same later turns.
ArrayFormRun ==
    Replay(EngageRun(Program.this, caller.failThrows, caller.succeedThrows),
           Events(st, "turn"))

\* The object whose keys are the input's keys, each with the value of its
\* own Future.
KeyedValues(f) ==
    [key \in Range(f.next.mapper.keys) |->
        ValueOf(LeafInputs(f)[IndexOf(f.next.mapper.keys, key)])]

\* C30: all over a keyed collection.  The elements are engaged in the key
\* iteration order, through the array form; when every element succeeds all
\* are engaged and succeed is invoked once, not before the last element has
\* succeeded, with an object that has exactly the input's keys, each mapped
\* to the value of its own Future, in every completion order; when an
\* element has failed, fail receives the error the array form over the same
\* Futures delivers.
KeyedAllRefinesArray ==
    (Engaged /\ IsAllObject(Program)) =>
        /\ Program.this = allArray(LeafInputs(Program))
        /\ Len(Program.next.mapper.keys) = Len(LeafInputs(Program))
        /\ InputsEngaged = SubSeq(LeafInputs(Program), 1, Len(InputsEngaged))
        /\ AllInputsSucceed(Program) =>
              /\ InputsEngaged = LeafInputs(Program)
              /\ Len(Succeeds) =
                    (IF Len(InputSuccesses(LeafInputs(Program))) = Len(LeafInputs(Program))
                     THEN 1 ELSE 0)
              /\ Len(Succeeds) = 1 => Succeeds[1].arg = KeyedValues(Program)
        /\ Len(InputFailures(LeafInputs(Program))) >= 1 =>
              /\ Len(Fails) >= 1
              /\ Len(Events(ArrayFormRun, "fail")) >= 1
              /\ Fails[1].arg = Events(ArrayFormRun, "fail")[1].arg

\* all({a, b, c}) over three Futures that succeed on later turns, the third
\* first: succeed has been called once.
KeyedAllRefinesArrayWitness ==
    /\ Engaged /\ IsAllObject(Program) /\ Len(LeafInputs(Program)) = 3
    /\ AllInputsSucceed(Program)
    /\ Len(InputSuccesses(LeafInputs(Program))) = 3
    /\ InputSuccesses(LeafInputs(Program))[1].ev = "turn"
    /\ st.tasks[InputSuccesses(LeafInputs(Program))[1].task].v = 3
    /\ Len(Succeeds) = 1

----------------------------------------------------------------------------
\* C31: no cancellation.  In gather2, gather3, gather4 and all, every input
\* is engaged exactly once per engagement of the combined Future, even when
\* an earlier input has already failed; and once the combined fail callback
\* has been invoked, a callback fired by an input causes no further
\* invocation of the combined succeed or fail callback.
NoCancellation ==
    (Engaged /\ IsParallel(Program)) =>
        /\ InputsEngaged = LeafInputs(Program)
        /\ (Len(Outcomes) >= 1 /\ Outcomes[1].ev = "fail") => Len(Outcomes) = 1

----------------------------------------------------------------------------
\* One Future engaged twice by the caller: the second engage call is made
\* after any number of the later turns the first one started, and the later
\* turns of the two engagements run in any order.
\*   pc : "build", then "once" after the first engage call and "twice" after
\*        the second

\* Largest number of Futures handed to a gather2 or all that is engaged twice.
MaxTwice == 2

\* What the caller's try/catch around its engage call does with an exception.
CallerCatch(s) ==
    IF s.exc.thrown THEN Emit([ev |-> "escaped", arg |-> s.exc.err], Caught(s)) ELSE s

\* The caller's k-th future.engage(fail, succeed), with callbacks of its own.
EngageBy(k, f, failThrows, succeedThrows, s) ==
    CallerCatch(engage(f, EngagementFail(k, failThrows), EngagementSucceed(k, succeedThrows), s))

CanEngageTwice ==
    /\ Len(pool) = 1
    /\ pool[1].k = "gather2" \/ IsAll(pool[1])
    /\ Inputs(pool[1]) <= MaxTwice

EngageOnce ==
    /\ pc = "build" /\ CanEngageTwice
    /\ \E failThrows \in BOOLEAN, succeedThrows \in BOOLEAN :
          /\ st' = EngageBy(1, pool[1], failThrows, succeedThrows, st)
          /\ caller' = [failThrows |-> failThrows, succeedThrows |-> succeedThrows]
    /\ pc' = "once"
    /\ UNCHANGED pool

EngageTwice ==
    /\ pc = "once"
    /\ st' = EngageBy(2, pool[1], caller.failThrows, caller.succeedThrows, st)
    /\ pc' = "twice"
    /\ UNCHANGED <<pool, caller>>

NextTwice ==
    \/ NewFuture \/ NewOf \/ NewReject \/ NewTryF \/ NewEncase \/ NewTryP
    \/ Gather2 \/ AllArray \/ AllObject
    \/ EngageOnce \/ EngageTwice \/ Fire

SpecTwice == Init /\ [][NextTwice]_vars

\* The engage call whose callbacks the callback cb ends in.
RECURSIVE EngagementOf(_)
EngagementOf(cb) ==
    CASE cb.t \in {"engagementFail", "engagementSucceed"} -> cb.by
      [] "reject" \in DOMAIN cb -> EngagementOf(cb.reject)
      [] OTHER -> EngagementOf(cb.resolve)

TaskEngagement(i) == EngagementOf(st.tasks[i].cb)

\* The calls of the callbacks of the k-th engage call, in order.
OutcomesOf(s, k) == SelectSeq(s.log, LAMBDA e : e.ev \in {"fail", "succeed"} /\ e.by = k)

\* The place of the task i among the tasks of its own engagement.
LoneIndex(i) == Cardinality({j \in 1..i : TaskEngagement(j) = TaskEngagement(i)})

\* The later turns of the k-th engagement that have run, in order, each
\* named by the place of its task within that engagement.
LoneTurns(k) ==
    LET turns == SelectSeq(Events(st, "turn"), LAMBDA e : TaskEngagement(e.task) = k)
    IN  [i \in 1..Len(turns) |-> [task |-> LoneIndex(turns[i].task)]]

\* The k-th engagement run alone: the same engage call on the same Future
\* with nothing else going on, followed by its own later turns in the same
\* order.
LoneRun(k) ==
    Replay(EngageBy(k, Program, caller.failThrows, caller.succeedThrows, EmptyExec),
           LoneTurns(k))

EngagementsMade == IF pc = "once" THEN 1 ELSE 2

\* C32: independent engagements.  When the same gather2 or all Future is
\* engaged twice, with the later turns of the two engagements interleaved in
\* any order, each engagement has its own result collection, counter and
\* failure guard (the closures of the k-th engagement use the k-th cell and
\* no other), the Future itself is left as it was built, and the callbacks
\* of each engagement receive exactly the calls they receive when that
\* engagement runs alone.
IndependentEngagements ==
    (pc \in {"once", "twice"}) =>
        /\ Len(st.cells) = EngagementsMade
        /\ \A i \in 1..Len(st.tasks) :
              "cell" \in DOMAIN st.tasks[i].cb => st.tasks[i].cb.cell = TaskEngagement(i)
        /\ \A k \in 1..EngagementsMade : OutcomesOf(st, k) = OutcomesOf(LoneRun(k), k)

\* gather2 over two Futures that succeed on later turns has been engaged
\* twice and the four turns have run alternately: each engagement's succeed
\* callback has been called once with the pair.
IndependentEngagementsWitness ==
    /\ pc = "twice" /\ Program.k = "gather2" /\ Quiescent(st)
    /\ Events(st, "turn") = <<[ev |-> "turn", task |-> 1], [ev |-> "turn", task |-> 3],
                              [ev |-> "turn", task |-> 2], [ev |-> "turn", task |-> 4]>>
    /\ OutcomesOf(st, 1) = <<[ev |-> "succeed", arg |-> (0 :> 1) @@ (1 :> 2), by |-> 1]>>
    /\ OutcomesOf(st, 2) = <<[ev |-> "succeed", arg |-> (0 :> 1) @@ (1 :> 2), by |-> 2]>>

----------------------------------------------------------------------------
\* The program is F.errorMap(mapper) with a mapper that throws.
IsErrorMapThrowing == Program.k = "errorMap" /\ Program.mapper.n = "boom"

\* C33: a throwing errorMap mapper is not specially handled.  When the
\* receiver fails and the mapper throws, the mapper is invoked exactly once
\* for the engagement, the caller's fail callback is not invoked, and the
\* exception propagates out of the call that ran the mapper: the engage call
\* on the errorMap Future or, when the receiver failed on a later turn, that
\* turn.
ErrorMapThrowPropagates ==
    (Engaged /\ IsErrorMapThrowing /\ FailsOnce(Program.this)) =>
        /\ Len(SiteCalls(Program)) <= 1
        /\ Quiescent(st) => Len(SiteCalls(Program)) = 1
        /\ Len(Fails) = 0
        /\ Len(SiteCalls(Program)) >= 1 => Propagated

----------------------------------------------------------------------------
\* A chain built with map, flatMap and handleWith on a Future that is none
\* of these.
RECURSIVE IsPlainChain(_)
IsPlainChain(f) ==
    CASE f.k \in LeafKinds -> TRUE
      [] f.k \in {"flatMap", "handleWith"} -> ~IsParallel(f) /\ IsPlainChain(f.this)
      [] OTHER -> FALSE

\* What the caller's callback called at the log position q threw, or 0 when
\* it returned.
ThrownAt(q) ==
    IF st.log[q].ev = "fail" /\ caller.failThrows THEN st.log[q].arg
    ELSE IF st.log[q].ev = "succeed" /\ caller.succeedThrows THEN 900
    ELSE 0

\* The calls of fail that hand the caller an exception one of its own
\* callbacks has thrown before.
Redelivered ==
    {p \in OutcomePositions :
        /\ st.log[p].ev = "fail"
        /\ \E q \in OutcomePositions : q < p /\ ThrownAt(q) = st.log[p].arg}

\* C34: an exception thrown by the caller's own succeed or fail callback is
\* not caught twice.  Within one engagement of a chain built with map,
\* flatMap and handleWith, the caller's fail callback is invoked at most
\* once with such an exception, also when the fail callback itself throws.
CallerExceptionCaughtOnce ==
    (Engaged /\ Program.k \in {"flatMap", "handleWith"} /\ IsPlainChain(Program)) =>
        Cardinality(Redelivered) <= 1

----------------------------------------------------------------------------
\* C35: terminal success.  Within one engagement of a Future built with map
\* or flatMap, the caller's fail callback is never invoked after the
\* caller's succeed callback has been invoked, including when the succeed
\* callback throws.
TerminalSuccess ==
    (Engaged /\ Program.k = "flatMap" /\ IsChain(Program)) =>
        \A p, q \in OutcomePositions :
            (st.log[p].ev = "succeed" /\ p < q) => st.log[q].ev # "fail"

----------------------------------------------------------------------------
\* The program is F.handleWith(h), or F.handleWith(h) under one enclosing
\* map or flatMap, with a handler that throws.
IsHandlerThrowing == HasHandler /\ HandlerSite.errHandler.n = "hThrow"

\* C36: a throwing handleWith handler is not recovered by its own
\* handleWith.  When the receiver fails with E and the handler throws X, the
\* handler is invoked once, with E, and never again with X; engaged
\* directly, X propagates to the caller (or to the host, when the receiver
\* failed on a later turn) and neither callback is invoked; under an
\* enclosing map or flatMap, X is delivered to the caller's fail callback.
HandlerThrowNotRecovered ==
    (Engaged /\ IsHandlerThrowing /\ Program.k \in {"handleWith", "flatMap"}
        /\ FailsOnce(HandlerSite.this) /\ Quiescent(st)) =>
        LET X == InvokeErrHandler(HandlerSite.errHandler, FailureOf(HandlerSite.this)).val
        IN  /\ Len(SiteCalls(HandlerSite)) = 1
            /\ SiteCalls(HandlerSite)[1].arg = FailureOf(HandlerSite.this)
            /\ Program.k = "handleWith" =>
                  /\ Len(Outcomes) = 0
                  /\ Propagated
            /\ Program.k = "flatMap" =>
                  /\ Len(Fails) >= 1 /\ Fails[1].arg = X
                  /\ Len(Succeeds) = 0

----------------------------------------------------------------------------
\* The Future f with every input whose action throws e replaced by
\* Future.reject(e).
RECURSIVE Explicit(_)
Explicit(f) ==
    CASE f.k \in LeafKinds -> IF ThrowsSync(f) THEN reject(f.action.e) ELSE f
      [] f.k = "gather2"  -> gather2(Explicit(f.future1), Explicit(f.future2))
      [] f.k = "allArray" -> allArray([i \in 1..Len(f.futures) |-> Explicit(f.futures[i])])
      [] OTHER -> [f EXCEPT !.this = Explicit(f.this)]

SomeInputThrows(f) == \E i \in 1..Len(LeafInputs(f)) : ThrowsSync(LeafInputs(f)[i])

\* The program with explicit failures for its throwing inputs, engaged with
\* callbacks that return and followed by the same later turns.
ExplicitRun == Replay(EngageRun(Explicit(Program), FALSE, FALSE), Events(st, "turn"))

\* C37: throwing inputs of gather and all.  When the action of an input of
\* gather2, gather3, gather4 or all throws synchronously and the caller's
\* callbacks do not throw, the thrown value is treated as that input's
\* failure and passes through first-failure-wins like an explicit fail: the
\* caller's callbacks receive the calls they receive when that input fails
\* explicitly with the same value, fail is invoked once, with the failure
\* that came first in time, and succeed is not invoked; no exception escapes
\* the combined engage; and every input is engaged, the ones after the
\* throwing input included.
ThrowingInputIsFailure ==
    (Engaged /\ IsParallel(Program) /\ SomeInputThrows(Program) /\ CallerReturns) =>
        /\ Outcomes = SelectSeq(ExplicitRun.log, LAMBDA e : e.ev \in {"fail", "succeed"})
        /\ Len(Fails) = 1
        /\ Fails[1].arg = InputFailures(LeafInputs(Program))[1]
        /\ Len(Succeeds) = 0
        /\ Len(Escaped) = 0
        /\ InputsEngaged = LeafInputs(Program)

----------------------------------------------------------------------------
\* C38: tryP exclusivity.  Within one engagement of a tryP Future at most
\* one of the caller's callbacks is invoked; in particular when the promise
\* resolves, fail is never invoked, including when the succeed callback
\* throws.
TryPExclusive ==
    (Engaged /\ Program.k = "tryP") =>
        /\ Len(Outcomes) <= 1
        /\ (~InvokeFn(Program.fn).thrown /\ InvokeFn(Program.fn).val.settled = "fulfilled") =>
              Len(Fails) = 0

----------------------------------------------------------------------------
\* The runs of gather2, gather3, gather4 and all under a host that keeps
\* running: every timer that has been set and every promise reaction that
\* has been queued is run in the end (the event loop drops none).

EngageParallel == Len(pool) = 1 /\ IsParallel(pool[1]) /\ Engage

NextProgress ==
    \/ NewFuture \/ NewOf \/ NewReject \/ NewTryF \/ NewEncase \/ NewTryP
    \/ Gather2 \/ Gather3 \/ Gather4 \/ AllArray \/ AllObject
    \/ EngageParallel \/ Fire

SpecProgress == Init /\ [][NextProgress]_vars /\ WF_vars(Fire)

\* Engaged on its own, f invokes exactly one of its callbacks, before engage
\* returns or on a later turn, and throws nothing.
SettlesOnce(f) == ~Alone(f).exc.thrown /\ (InputSucceeds(f) \/ InputFails(f))

InputsSettleOnce(f) == \A i \in 1..Len(LeafInputs(f)) : SettlesOnce(LeafInputs(f)[i])

\* A parallel composition of inputs that each settle once has been engaged.
SettlingEngaged == Engaged /\ IsParallel(Program) /\ InputsSettleOnce(Program)

\* C39: progress.  If every input of gather2, gather3, gather4 or all
\* eventually invokes exactly one of its callbacks, the combined Future
\* eventually invokes one of the caller's callbacks and never stays pending
\* forever: succeed has been invoked once all inputs have succeeded (as long
\* as it has not been, some input has not succeeded yet), fail as soon as
\* one input has failed (as long as it has not been, no input has failed).
GatherProgress ==
    /\ []((Engaged /\ IsParallel(Program) /\ Len(Succeeds) = 0 /\ InputsSettleOnce(Program)) =>
            Len(InputSuccesses(LeafInputs(Program))) < Len(LeafInputs(Program)))
    /\ []((Engaged /\ IsParallel(Program) /\ Len(Fails) = 0 /\ InputsSettleOnce(Program)) =>
            Len(InputFailures(LeafInputs(Program))) = 0)
    /\ SettlingEngaged ~> (Len(Outcomes) >= 1)

\* gather4 over four Futures that settle on later turns has been engaged,
\* three have succeeded and nothing has reached the caller yet.
GatherProgressWitness ==
    /\ SettlingEngaged /\ IsGather4(Program)
    /\ Len(InputSuccesses(LeafInputs(Program))) = 3
    /\ Cardinality(TurnPositions) = 3
    /\ Len(Outcomes) = 0

====
